---------------------------- MODULE Spec2Model ----------------------------
(***************************************************************************)
(* A model of cifix's log preprocessing and pattern classification engine  *)
(* (src/src/cifix/preprocessor.py, patterns.py, classifier.py).            *)
(*                                                                         *)
(* TEXT.  A Python str is modelled as a sequence of symbols.  Each symbol  *)
(* stands for one fixed piece of literal text:                             *)
(*                                                                         *)
(*   "CSI"   "\x1b["                  start of an ANSI escape sequence     *)
(*   "0"     "0"                      a digit (a member of [0-9;])         *)
(*   "m"     "m"                      the final byte of an SGR sequence    *)
(*   "TS"    "2024-01-15T10:30:06Z"   an ISO-8601 timestamp                *)
(*   "CMD"   "##[command]"            command-echo marker                  *)
(*   "GRP"   "##[group]"              group-start marker                   *)
(*   "END"   "##[endgroup]"           group-end marker                     *)
(*   "SP"    " "                      a blank                              *)
(*   "NL"    "\n"                     a line break                         *)
(*   "x"     "x"                      any other character                  *)
(*   "OOM"   "Cannot allocate memory"                                      *)
(*   "MISS"  "cache miss"                                                  *)
(*   "CHK"   "checksum"                                                    *)
(*   "LINT"  "a.py:1:1: C0114"                                             *)
(*                                                                         *)
(* and each regular expression of the source is translated to a matcher    *)
(* over these symbols that matches exactly where the regular expression    *)
(* matches the literal text.                                               *)
(***************************************************************************)
EXTENDS Integers, Sequences, FiniteSets, TLC

VARIABLES
    extra_infra,   \* patterns._extra_infra
    extra_code,    \* patterns._extra_code
    pc,            \* where the caller is: which call was made last
    variant,       \* the preprocessor class a direct clean/split call is made on
    raw_log,       \* the text argument of the last call
    provider,      \* the provider argument of the last classify call
    cleaned1,      \* clean(raw_log)
    cleaned2,      \* clean(clean(raw_log))
    blocks,        \* the list split_steps returned
    result,        \* what the last classify call returned or raised
    registered,    \* the arguments of the last register_patterns call
    workers,       \* per block: the locals of a _classify_block call under way
    previous,      \* what the classify call before the last one returned
    files,         \* the files of the repository: path -> content
    fixer,         \* the RuffFixer and the locals of its method under way
    cmd,           \* the options and locals of a diagnose command under way
    trace          \* the phases begun and the tools run so far, in order

\* The variables of the fixer, the commands and the step-wise classifier.
others == <<workers, previous, files, fixer, cmd, trace>>

vars == <<extra_infra, extra_code, pc, variant, raw_log, provider,
          cleaned1, cleaned2, blocks, result, registered, others>>

None == "None"

\* Nothing of the fixer, the commands or the step-wise classifier is in use.
OthersIdle ==
    /\ workers = None
    /\ previous = None
    /\ files = None
    /\ fixer = None
    /\ cmd = None
    /\ trace = <<>>

\* All texts of at most n symbols over alphabet A.
Texts(A, n) == UNION {[1..k -> A] : k \in 0..n}

\* Every symbol of the text alphabet.
Symbols ==
    {"CSI", "0", "m", "TS", "CMD", "GRP", "END", "SP", "NL", "x",
     "OOM", "MISS", "CHK", "LINT"}

\* The symbols str.isspace holds of (\s of a regular expression).
Whitespace == {"SP", "NL"}

\* The symbols after the first n.
Drop(s, n) == SubSeq(s, n + 1, Len(s))

\* s is the start of t.
IsPrefix(s, t) == Len(s) <= Len(t) /\ SubSeq(t, 1, Len(s)) = s

\* How many symbols at the start of s are in the class S (a greedy S*).
RECURSIVE Leading(_, _)
Leading(s, S) ==
    IF s = <<>> \/ Head(s) \notin S THEN 0 ELSE 1 + Leading(Tail(s), S)

--------------------------------------------------------------------------
(* LogPreprocessor.clean: re.sub(r"\x1b\[[0-9;]*m", "", raw)               *)

\* The symbols in the class [0-9;].
AnsiParams == {"0"}

\* Length of the match of \x1b\[[0-9;]*m at the start of s, 0 if none.
AnsiMatchLen(s) ==
    IF s # <<>> /\ Head(s) = "CSI"
    THEN LET k == Leading(Tail(s), AnsiParams)
         IN  IF Len(s) >= k + 2 /\ s[k + 2] = "m" THEN k + 2 ELSE 0
    ELSE 0

\* re.sub: leftmost, non-overlapping matches, one pass over the input.
RECURSIVE StripAnsi(_)
StripAnsi(s) ==
    IF s = <<>> THEN <<>>
    ELSE LET n == AnsiMatchLen(s)
         IN  IF n > 0 THEN StripAnsi(Drop(s, n))
             ELSE <<Head(s)>> \o StripAnsi(Tail(s))

base_clean(raw) == StripAnsi(raw)

(* GitHubActionsPreprocessor._TIMESTAMP:                                   *)
(*   ^\d{4}-\d{2}-\d{2}T[\d:.]+Z\s*  with re.M.  bol: the scan position is *)
(* at the start of the input or just after a "\n" of the input.            *)
RECURSIVE StripTimestamps(_, _)
StripTimestamps(s, bol) ==
    IF s = <<>> THEN <<>>
    ELSE IF bol /\ Head(s) = "TS"
    THEN LET k == Leading(Tail(s), Whitespace)
         IN  StripTimestamps(Drop(s, k + 1), k > 0 /\ s[k + 1] = "NL")
    ELSE <<Head(s)>> \o StripTimestamps(Tail(s), Head(s) = "NL")

(* GitHubActionsPreprocessor._COMMAND:  ^##\[command\].*$  with re.M.      *)
\* The symbols "." matches (anything but a line break).
Dot == Symbols \ {"NL"}

RECURSIVE StripCommands(_, _)
StripCommands(s, bol) ==
    IF s = <<>> THEN <<>>
    ELSE IF bol /\ Head(s) = "CMD"
    THEN StripCommands(Drop(s, Leading(s, Dot)), FALSE)
    ELSE <<Head(s)>> \o StripCommands(Tail(s), Head(s) = "NL")

github_clean(raw) ==
    StripCommands(StripTimestamps(base_clean(raw), TRUE), TRUE)

\* clean of the preprocessor class v.
clean(v, raw) ==
    IF v = "GitHubActionsPreprocessor" THEN github_clean(raw) ELSE base_clean(raw)

Variants == {"LogPreprocessor", "GitHubActionsPreprocessor"}

--------------------------------------------------------------------------
(* Splitting a log into step blocks.                                       *)

\* str.splitlines: the lines of s, without their line breaks; a final line
\* break opens no further line.
RECURSIVE splitlines(_)
splitlines(s) ==
    IF s = <<>> THEN <<>>
    ELSE LET k == Leading(s, Dot)
         IN  <<SubSeq(s, 1, k)>> \o splitlines(Drop(s, k + 1))

\* "\n".join(lines)
RECURSIVE join(_)
join(lines) ==
    IF lines = <<>> THEN <<>>
    ELSE IF Len(lines) = 1 THEN lines[1]
    ELSE lines[1] \o <<"NL">> \o join(Tail(lines))

\* s with its last symbols dropped while they are whitespace.
RECURSIVE rstrip(_)
rstrip(s) ==
    IF s = <<>> \/ s[Len(s)] \notin Whitespace THEN s
    ELSE rstrip(SubSeq(s, 1, Len(s) - 1))

\* str.strip
strip(s) == rstrip(Drop(s, Leading(s, Whitespace)))

\* StepBlock(name, text): exit_code keeps its default.  A name is a text;
\* the three names the code makes up are one-symbol texts of their own.
StepBlock(name, text) == [name |-> name, text |-> text, exit_code |-> None]

FullLogName == <<"(full log)">>
PreambleName == <<"(preamble)">>
BetweenStepsName == <<"(between steps)">>

\* _GROUP_START.match(line), _GROUP_END.match(line): anchored at the start
\* of the line.
IsGroupStart(line) == line # <<>> /\ Head(line) = "GRP"

\* (_GROUP_END.search(line): not anchored.)
IsGroupEndSearch(line) == \E i \in 1..Len(line) : line[i] = "END"

IsGroupEnd(line) == line # <<>> /\ Head(line) = "END"

\* The blocks appended when a marker or the end of input is met.
\* (FlushLastLine: the block holding only the last line of the buffer.)
FlushLastLine(bs, current_name, current_lines) ==
    IF current_lines # <<>>
    THEN Append(bs, StepBlock(current_name, current_lines[Len(current_lines)]))
    ELSE bs

Flush(bs, current_name, current_lines) ==
    IF current_lines # <<>>
    THEN Append(bs, StepBlock(current_name, join(current_lines)))
    ELSE bs

\* The loop of GitHubActionsPreprocessor.split_steps over the lines left,
\* and the flush of the remaining lines after it.
RECURSIVE SplitLoop(_, _, _, _)
SplitLoop(lines, bs, current_name, current_lines) ==
    IF lines = <<>> THEN Flush(bs, current_name, current_lines)
    ELSE LET line == Head(lines) IN
         IF IsGroupStart(line)
         THEN SplitLoop(Tail(lines), Flush(bs, current_name, current_lines),
                        strip(Tail(line)), <<>>)
         ELSE IF IsGroupEnd(line)
         THEN SplitLoop(Tail(lines), Flush(bs, current_name, current_lines),
                        BetweenStepsName, <<>>)
         ELSE SplitLoop(Tail(lines), bs, current_name,
                        Append(current_lines, line))

\* [b for b in blocks if b.text.strip()]
FilterBlocksKeepAll(bs) == bs

\* (The same without the strip: only empty texts are dropped.)
FilterBlocksEmptyOnly(bs) == SelectSeq(bs, LAMBDA b : b.text # <<>>)

FilterBlocks(bs) == SelectSeq(bs, LAMBDA b : strip(b.text) # <<>>)

github_split_steps(raw) ==
    FilterBlocks(SplitLoop(splitlines(github_clean(raw)), <<>>,
                           PreambleName, <<>>))

base_split_steps(raw) == <<StepBlock(FullLogName, base_clean(raw))>>

\* split_steps of the preprocessor class v.
split_steps(v, raw) ==
    IF v = "GitHubActionsPreprocessor"
    THEN github_split_steps(raw) ELSE base_split_steps(raw)

--------------------------------------------------------------------------
(* Direct calls of split_steps.                                            *)

MaxSplitLen == 5

SplitAlphabet == {"GRP", "END", "TS", "SP", "NL", "x"}

InitSplit ==
    /\ extra_infra = <<>>
    /\ extra_code = <<>>
    /\ pc = "start"
    /\ variant \in Variants
    /\ raw_log \in Texts(SplitAlphabet, MaxSplitLen)
    /\ provider = None
    /\ cleaned1 = None
    /\ cleaned2 = None
    /\ blocks = None
    /\ result = None
    /\ registered = None
    /\ OthersIdle

Split ==
    /\ pc = "start"
    /\ blocks' = split_steps(variant, raw_log)
    /\ pc' = "split"
    /\ UNCHANGED others
    /\ UNCHANGED <<extra_infra, extra_code, variant, raw_log, provider,
                   cleaned1, cleaned2, result, registered>>

\* The caller drops the list and is ready for another call.
SplitReturn ==
    /\ pc = "split"
    /\ blocks' = None
    /\ pc' = "start"
    /\ UNCHANGED others
    /\ UNCHANGED <<extra_infra, extra_code, variant, raw_log, provider,
                   cleaned1, cleaned2, result, registered>>

NextSplit == Split \/ SplitReturn

SpecSplit == InitSplit /\ [][NextSplit]_vars

\* A line of the cleaned log that is no marker and not blank.
HasBodyLine(v, raw) ==
    \E i \in 1..Len(splitlines(clean(v, raw))) :
        LET line == splitlines(clean(v, raw))[i]
        IN  ~IsGroupStart(line) /\ ~IsGroupEnd(line) /\ strip(line) # <<>>

\* C8 as stated: split always produces at least one segment, for every raw
\* log and every preprocessor variant.
C8_AlwaysOneSegment == pc = "split" => Len(blocks) >= 1

\* C8 amended: split always returns a list of blocks; the default variant
\* returns exactly one block, "(full log)", holding the cleaned log; the
\* GitHub Actions variant returns at least one block exactly when some
\* line of the cleaned log is neither a marker nor blank, and none for an
\* empty, blank or markers-only log.
C8_SegmentsIffBody ==
    pc = "split" =>
        /\ blocks \in Seq([name : Seq(STRING), text : Seq(Symbols),
                           exit_code : {None}])
        /\ variant = "LogPreprocessor" =>
               blocks = <<StepBlock(FullLogName, clean(variant, raw_log))>>
        /\ variant = "GitHubActionsPreprocessor" =>
               (Len(blocks) >= 1 <=> HasBodyLine(variant, raw_log))

\* C8 witness: a markers-only log (a group start, then an unmatched group
\* end) split by the GitHub Actions variant into no block at all.
C8_Witness ==
    /\ pc = "split"
    /\ variant = "GitHubActionsPreprocessor"
    /\ raw_log = <<"GRP", "x", "NL", "END">>
    /\ blocks = <<>>

\* The lines of the cleaned log.
CleanedLines == splitlines(clean(variant, raw_log))

\* A line that starts with a group-start or a group-end marker.
IsMarker(line) == line # <<>> /\ line[1] \in {"GRP", "END"}

\* The name fixed by line m of L, a marker, or by the start of the log
\* (m = 0).
NameBy(L, m) ==
    IF m = 0 THEN <<"(preamble)">>
    ELSE IF L[m][1] = "GRP" THEN strip(Tail(L[m]))
    ELSE <<"(between steps)">>

\* The first marker of L after position m, Len(L) + 1 if there is none.
NextMarker(L, m) ==
    IF \E j \in (m + 1)..Len(L) : IsMarker(L[j])
    THEN CHOOSE j \in (m + 1)..Len(L) :
             IsMarker(L[j]) /\ \A h \in (m + 1)..(j - 1) : ~IsMarker(L[h])
    ELSE Len(L) + 1

\* The segments of L opened at position m or later: one for the start of
\* the log and one for each marker, if lines follow it before the next
\* marker, named by what opened it and holding those lines.
RECURSIVE SegmentsFrom(_, _)
SegmentsFrom(L, m) ==
    IF m > Len(L) THEN <<>>
    ELSE LET body == SubSeq(L, m + 1, NextMarker(L, m) - 1)
             here == IF (m = 0 \/ IsMarker(L[m])) /\ body # <<>>
                     THEN <<[name |-> NameBy(L, m), text |-> join(body),
                             exit_code |-> None]>>
                     ELSE <<>>
         IN  here \o SegmentsFrom(L, m + 1)

\* A text with a symbol that is not whitespace.
NotBlank(text) == \E i \in 1..Len(text) : text[i] \notin {"SP", "NL"}

\* C12: in the provider-specific split the name of each segment is fixed
\* by the most recent marker before its lines: "(preamble)" when there is
\* none, the trimmed argument of a group start, "(between steps)" after a
\* group end; a marker closes a segment only if lines were buffered, and no
\* marker line is in a segment body.
C12_SegmentNames ==
    (pc = "split" /\ variant = "GitHubActionsPreprocessor") =>
        /\ blocks = SelectSeq(SegmentsFrom(CleanedLines, 0),
                              LAMBDA b : NotBlank(b.text))
        /\ \A k \in 1..Len(blocks) :
               \A i \in 1..Len(splitlines(blocks[k].text)) :
                   ~IsMarker(splitlines(blocks[k].text)[i])

\* C12 witness: a line before and a line after a group end, with the
\* names "(preamble)" and "(between steps)".
C12_Witness ==
    /\ pc = "split"
    /\ variant = "GitHubActionsPreprocessor"
    /\ raw_log = <<"x", "NL", "END", "NL", "x">>
    /\ blocks = << [name |-> <<"(preamble)">>, text |-> <<"x">>,
                    exit_code |-> None],
                   [name |-> <<"(between steps)">>, text |-> <<"x">>,
                    exit_code |-> None] >>

\* A group start with a blank before its argument names its segment by
\* the argument alone.
C12_TrimmedName ==
    /\ pc = "split"
    /\ variant = "GitHubActionsPreprocessor"
    /\ raw_log = <<"GRP", "SP", "x", "NL", "x">>
    /\ blocks = <<[name |-> <<"x">>, text |-> <<"x">>, exit_code |-> None]>>

\* C13 as stated: no segment returned by split has an empty or
\* whitespace-only body, for every preprocessor variant.
C13_NoBlankSegment ==
    pc = "split" => \A k \in 1..Len(blocks) : NotBlank(blocks[k].text)

\* C13 amended: the GitHub Actions variant returns no segment with an empty
\* or whitespace-only body: it returns the segments it closed without the
\* blank ones; the default variant returns its one segment whatever its
\* body, an empty or whitespace-only one included.
C13_NoBlankSegmentGitHub ==
    pc = "split" =>
        /\ variant = "GitHubActionsPreprocessor" =>
               /\ \A k \in 1..Len(blocks) : NotBlank(blocks[k].text)
               /\ Len(blocks) =
                      Cardinality({k \in 1..Len(SegmentsFrom(CleanedLines, 0)) :
                                      NotBlank(SegmentsFrom(CleanedLines, 0)[k].text)})
        /\ variant = "LogPreprocessor" =>
               /\ Len(blocks) = 1
               /\ blocks[1].text = clean(variant, raw_log)

\* C13 witness: the GitHub Actions variant drops a whitespace-only
\* "(preamble)" and keeps the segment after it.
C13_Witness ==
    /\ pc = "split"
    /\ variant = "GitHubActionsPreprocessor"
    /\ raw_log = <<"SP", "NL", "END", "NL", "x">>
    /\ Len(SegmentsFrom(CleanedLines, 0)) = 2
    /\ Len(blocks) = 1
    /\ blocks[1].name = <<"(between steps)">>

\* The default variant has returned a whitespace-only segment.
C13_DefaultBlank ==
    /\ pc = "split"
    /\ variant = "LogPreprocessor"
    /\ raw_log = <<"SP">>
    /\ blocks = <<[name |-> <<"(full log)">>, text |-> <<"SP">>,
                   exit_code |-> None]>>

--------------------------------------------------------------------------
(* patterns.py: the rule registry.  A rule is (pattern, error_type,        *)
(* severity, suggestion); its pattern is named here by its error_type and  *)
(* matched by search below.  (The dash of cache_miss's suggestion is       *)
(* written "--".)                                                          *)

Rule(pattern, error_type, severity, suggestion) ==
    [pattern |-> pattern, error_type |-> error_type,
     severity |-> severity, suggestion |-> suggestion]

INFRA_PATTERNS == <<
    Rule("missing_secret", "missing_secret", "fatal",
         "Check repository/org secrets and environment configuration."),
    Rule("missing_env_var", "missing_env_var", "fatal",
         "Verify env vars in workflow YAML or environment settings."),
    Rule("runner_unavailable", "runner_unavailable", "fatal",
         "Check self-hosted runner status or switch to GitHub-hosted runners."),
    Rule("runner_shutdown", "runner_shutdown", "fatal",
         "Runner was preempted or shut down. Retry the job."),
    Rule("network_timeout", "network_timeout", "error",
         "Transient network issue. Retry or check runner connectivity."),
    Rule("rate_limit", "rate_limit", "error",
         "Hit an API rate limit. Add backoff/retry or use caching."),
    Rule("registry_auth", "registry_auth", "fatal",
         "Registry auth failed. Check docker login credentials/tokens."),
    Rule("disk_full", "disk_full", "fatal",
         "Runner ran out of disk. Clean workspace or use a larger runner."),
    Rule("out_of_memory", "out_of_memory", "fatal",
         "Process ran out of memory. Use a larger runner or reduce parallelism."),
    Rule("timeout", "timeout", "fatal",
         "Job exceeded time limit. Optimize steps or increase timeout."),
    Rule("action_not_found", "action_not_found", "error",
         "Referenced action is missing or deprecated. Check version/path."),
    Rule("permissions", "permissions", "error",
         "Insufficient permissions. Check GITHUB_TOKEN scopes and job permissions."),
    Rule("cache_miss", "cache_miss", "warning",
         "Cache miss -- first run on this key, or cache was evicted."),
    Rule("dependency_resolution", "dependency_resolution", "error",
         "Package not found. Check package name, version pin, and index URL."),
    Rule("dependency_integrity", "dependency_integrity", "error",
         "Package integrity check failed. Clear cache and retry."),
    Rule("docker_pull_failed", "docker_pull_failed", "error",
         "Docker image pull failed. Check image name, tag, and registry auth."),
    Rule("docker_copy_failed", "docker_copy_failed", "error",
         "COPY source missing. Check .dockerignore and build context."),
    Rule("process_exit", "process_exit", "warning",
         "Generic step failure. Check preceding output for the real error.") >>

CODE_PATTERNS == <<
    Rule("lint_violation", "lint_violation", "error",
         "Fix the lint violation(s) or adjust ruff/linter config."),
    Rule("type_error", "type_error", "error",
         "Fix the type error reported by the type checker."),
    Rule("test_failure", "test_failure", "error",
         "One or more tests failed. Check assertion details above."),
    Rule("assertion_error", "assertion_error", "error",
         "Test assertion failed. Compare expected vs actual values."),
    Rule("test_summary", "test_summary", "warning",
         "See individual FAILED lines for specifics."),
    Rule("traceback", "traceback", "error",
         "Unhandled exception. Check the traceback for root cause."),
    Rule("syntax_error", "syntax_error", "fatal",
         "Fix the syntax error before pushing."),
    Rule("import_error", "import_error", "error",
         "Missing import. Add dependency or fix import path."),
    Rule("runtime_error", "runtime_error", "error",
         "Runtime error in application code. Check the traceback."),
    Rule("compile_error", "compile_error", "error",
         "Compilation error. Check the source file and line referenced."),
    Rule("eslint_violation", "eslint_violation", "error",
         "Fix the ESLint violation(s) or adjust config.") >>

\* Rules a caller registers: re.compile(r"x") as an infrastructure rule, as
\* a second infrastructure rule and as a code rule.
ExtInfra == Rule("x", "ext_infra", "error", "Provider-specific infrastructure rule.")
ExtInfra2 == Rule("x", "ext_infra2", "warning", "A second provider-specific rule.")
ExtCode == Rule("x", "ext_code", "fatal", "Provider-specific code rule.")

\* re.compile(r"x ") as an infrastructure rule with the error type of
\* ExtCode.
ExtInfraSp == Rule("x_sp", "ext_code", "error", "An infrastructure rule of the same type.")

get_infra_patterns == INFRA_PATTERNS \o extra_infra

get_code_patterns == CODE_PATTERNS \o extra_code

\* register_patterns(infra, code); an argument of None is the empty list.
register_patterns_replace(infra, code) ==
    /\ extra_infra' = infra
    /\ extra_code' = code

register_patterns(infra, code) ==
    /\ extra_infra' = IF infra # <<>> THEN extra_infra \o infra ELSE extra_infra
    /\ extra_code' = IF code # <<>> THEN extra_code \o code ELSE extra_code

--------------------------------------------------------------------------
(* classifier.py                                                           *)

\* Position of the first occurrence of symbol a in line, 0 if none.
Find(line, a) ==
    IF \E i \in 1..Len(line) : line[i] = a
    THEN CHOOSE i \in 1..Len(line) :
             line[i] = a /\ \A j \in 1..(i - 1) : line[j] # a
    ELSE 0

NoMatch == [start |-> 0, end |-> 0]

\* A match of one symbol at position i (no match when i = 0).
MatchAt(i) == [start |-> i, end |-> i]

\* pattern.search(line): the span of m.group(0), or NoMatch.  Over the text
\* alphabet only these patterns can match:
\*   out_of_memory         (out of memory|OOM|MemoryError|Cannot allocate memory)
\*   cache_miss            (cache (miss|not found|restore failed)|Unable to ...)
\*   dependency_integrity  (hash mismatch|integrity check|checksum)
\*   lint_violation        ^.*?:\d+:\d+:\s+[A-Z]\d{3,4}   from the start of
\*                         the line through the first code
\*   x                     x
\*   x_sp                  x followed by a space ("x ")
search(pattern, line) ==
    CASE pattern = "out_of_memory" -> MatchAt(Find(line, "OOM"))
      [] pattern = "cache_miss" -> MatchAt(Find(line, "MISS"))
      [] pattern = "dependency_integrity" -> MatchAt(Find(line, "CHK"))
      [] pattern = "lint_violation" ->
             LET i == Find(line, "LINT")
             IN  IF i = 0 THEN NoMatch
                 ELSE [start |-> 1, end |-> i]
      [] pattern = "x" -> MatchAt(Find(line, "x"))
      [] pattern = "x_sp" ->
             LET at == {i \in 1..(Len(line) - 1) :
                           line[i] = "x" /\ line[i + 1] = "SP"}
             IN  IF at = {} THEN NoMatch
                 ELSE LET i == CHOOSE i \in at : \A j \in at : i <= j
                      IN  [start |-> i, end |-> i + 1]
      [] OTHER -> NoMatch

\* m.group(0)
group0(m, line) == SubSeq(line, m.start, m.end)

\* Number of characters of each symbol's text.
Width ==
    [a \in Symbols |->
        CASE a = "CSI" -> 2 [] a = "TS" -> 20 [] a = "CMD" -> 11
          [] a = "GRP" -> 9 [] a = "END" -> 12 [] a = "OOM" -> 22
          [] a = "MISS" -> 10 [] a = "CHK" -> 8 [] a = "LINT" -> 15
          [] OTHER -> 1]

SummaryLimit == 200

\* s[:n].  (A cut inside a symbol's text would drop that symbol; no line of
\* the model is that long.)
RECURSIVE truncate(_, _)
truncate(s, n) ==
    IF s = <<>> \/ Width[Head(s)] > n THEN <<>>
    ELSE <<Head(s)>> \o truncate(Tail(s), n - Width[Head(s)])

ContextWindow == 2

Max(a, b) == IF a >= b THEN a ELSE b
Min(a, b) == IF a <= b THEN a ELSE b

\* _context_window(lines, idx): idx counts from 0 as in the source.
_context_window_wide(lines, idx) ==
    LET start == Max(0, idx - (ContextWindow + 1))
        end == Min(Len(lines), idx + ContextWindow + 2)
    IN  SubSeq(lines, start + 1, end)

_context_window(lines, idx) ==
    LET start == Max(0, idx - ContextWindow)
        end == Min(Len(lines), idx + ContextWindow + 1)
    IN  SubSeq(lines, start + 1, end)

\* Index of the first rule of patterns that matches line, 0 if none.
\* (LastMatch: of the last one, as if the loop went on after a match.)
LastMatch(patterns, line) ==
    IF \E r \in 1..Len(patterns) : search(patterns[r].pattern, line).start > 0
    THEN CHOOSE r \in 1..Len(patterns) :
             /\ search(patterns[r].pattern, line).start > 0
             /\ \A q \in (r + 1)..Len(patterns) :
                    search(patterns[q].pattern, line).start = 0
    ELSE 0

FirstMatch(patterns, line) ==
    IF \E r \in 1..Len(patterns) : search(patterns[r].pattern, line).start > 0
    THEN CHOOSE r \in 1..Len(patterns) :
             /\ search(patterns[r].pattern, line).start > 0
             /\ \A q \in 1..(r - 1) : search(patterns[q].pattern, line).start = 0
    ELSE 0

\* The ClassifiedError built from rule's match of lines[i + 1]; block_idx
\* and line_idx record where it was found (the position of the block in
\* the list classify walks, and the index i of enumerate(lines)).
ClassifiedError(category, rule, lines, i, block, k) ==
    LET line == lines[i + 1]
        m == search(rule.pattern, line)
    IN  [category |-> category,
         error_type |-> rule.error_type,
         summary |-> truncate(strip(group0(m, line)), SummaryLimit),
         severity |-> rule.severity,
         source_lines |-> _context_window(lines, i),
         step_name |-> block.name,
         suggestion |-> rule.suggestion,
         match_text |-> group0(m, line),
         block_idx |-> k,
         line_idx |-> i]

\* (err_type, summary) of an error.
Key(e) == <<e.error_type, e.summary>>

\* (The same with the code rules tried first.)
LineErrorCodeFirst(infra_patterns, code_patterns, lines, i, block, k) ==
    LET ri == FirstMatch(infra_patterns, lines[i + 1])
        rc == FirstMatch(code_patterns, lines[i + 1])
    IN  IF rc > 0
        THEN <<ClassifiedError("code", code_patterns[rc], lines, i, block, k)>>
        ELSE IF ri > 0
        THEN <<ClassifiedError("infrastructure", infra_patterns[ri],
                               lines, i, block, k)>>
        ELSE <<>>

\* What one iteration of the loop over the lines finds for line i: the
\* error of the first matching infrastructure rule, else of the first
\* matching code rule, else nothing (<<>>).
LineError(infra_patterns, code_patterns, lines, i, block, k) ==
    LET ri == FirstMatch(infra_patterns, lines[i + 1])
        rc == FirstMatch(code_patterns, lines[i + 1])
    IN  IF ri > 0
        THEN <<ClassifiedError("infrastructure", infra_patterns[ri],
                               lines, i, block, k)>>
        ELSE IF rc > 0
        THEN <<ClassifiedError("code", code_patterns[rc], lines, i, block, k)>>
        ELSE <<>>

\* if key not in seen
IsNewAlways(key, seen) == TRUE

IsNew(key, seen) == key \notin seen

\* The loop of _classify_block from line i on, with the errors and the
\* seen keys so far.
\* (ClassifyLoopFallThrough: the loop going on to the code rules where the
\* key of the infrastructure match is in seen.)
RECURSIVE ClassifyLoopFallThrough(_, _, _, _, _, _, _, _)
ClassifyLoopFallThrough(infra_patterns, code_patterns, lines, i, block, k, errors, seen) ==
    IF i >= Len(lines) THEN errors
    ELSE LET found == LineError(infra_patterns, code_patterns, lines, i, block, k)
             other == LineError(<<>>, code_patterns, lines, i, block, k)
             next == IF found # <<>> /\ IsNew(Key(found[1]), seen) THEN found
                     ELSE IF other # <<>> /\ IsNew(Key(other[1]), seen) THEN other
                     ELSE <<>>
         IN  IF next # <<>>
             THEN ClassifyLoopFallThrough(infra_patterns, code_patterns, lines,
                                          i + 1, block, k, Append(errors, next[1]),
                                          seen \cup {Key(next[1])})
             ELSE ClassifyLoopFallThrough(infra_patterns, code_patterns, lines,
                                          i + 1, block, k, errors, seen)

RECURSIVE ClassifyLoop(_, _, _, _, _, _, _, _)
ClassifyLoop(infra_patterns, code_patterns, lines, i, block, k, errors, seen) ==
    IF i >= Len(lines) THEN errors
    ELSE LET found == LineError(infra_patterns, code_patterns, lines, i, block, k)
         IN  IF found # <<>> /\ IsNew(Key(found[1]), seen)
             THEN ClassifyLoop(infra_patterns, code_patterns, lines, i + 1,
                               block, k, Append(errors, found[1]),
                               seen \cup {Key(found[1])})
             ELSE ClassifyLoop(infra_patterns, code_patterns, lines, i + 1,
                               block, k, errors, seen)

\* _classify_block(block), for the k-th block of the log.
_classify_block(block, k) ==
    ClassifyLoop(get_infra_patterns, get_code_patterns,
                 splitlines(block.text), 0, block, k, <<>>, {})

sev_rank == [fatal |-> 0, error |-> 1, warning |-> 2]

cat_rank == [infrastructure |-> 0, code |-> 1, unknown |-> 2]

\* key=lambda e: (cat_rank[e.category], sev_rank[e.severity])
sort_key_severity_first(e) == <<sev_rank[e.severity], cat_rank[e.category]>>

sort_key(e) == <<cat_rank[e.category], sev_rank[e.severity]>>

\* Python's order on pairs of integers.
PairLess(a, b) == a[1] < b[1] \/ (a[1] = b[1] /\ a[2] < b[2])

\* list.sort is stable: an element is placed after every element already
\* placed whose key is not greater than its own.
InsertBeforeEqual(sorted, e) ==
    LET n == Cardinality({j \in 1..Len(sorted) :
                             PairLess(sort_key(sorted[j]), sort_key(e))})
    IN  SubSeq(sorted, 1, n) \o <<e>> \o Drop(sorted, n)

Insert(sorted, e) ==
    LET n == Cardinality({j \in 1..Len(sorted) :
                             ~PairLess(sort_key(e), sort_key(sorted[j]))})
    IN  SubSeq(sorted, 1, n) \o <<e>> \o Drop(sorted, n)

RECURSIVE SortInto(_, _)
SortInto(sorted, rest) ==
    IF rest = <<>> THEN sorted
    ELSE SortInto(Insert(sorted, Head(rest)), Tail(rest))

\* all_errors.sort(key=...)
sort(all_errors) == SortInto(<<>>, all_errors)

\* sum(1 for e in all_errors if e.category == category)
count_types(all_errors, category) ==
    Cardinality({all_errors[j].error_type : j \in
                    {j \in 1..Len(all_errors) : all_errors[j].category = category}})

count(all_errors, category) ==
    Cardinality({j \in 1..Len(all_errors) : all_errors[j].category = category})

\* The if/elif chain on the two counts.
\* (verdict_infra: the chain without its "elif code" branch.)
verdict_infra(infra, code) ==
    IF infra > 0 /\ code > 0 THEN "both"
    ELSE IF infra > 0 THEN "infrastructure"
    ELSE "clean"

verdict_any(infra, code) ==
    IF infra > 0 \/ code > 0 THEN "both"
    ELSE IF infra > 0 THEN "infrastructure"
    ELSE IF code > 0 THEN "code"
    ELSE "clean"

verdict(infra, code) ==
    IF infra > 0 /\ code > 0 THEN "both"
    ELSE IF infra > 0 THEN "infrastructure"
    ELSE IF code > 0 THEN "code"
    ELSE "clean"

AnalysisResult(errors, infra, code) ==
    [errors |-> errors, verdict |-> verdict(infra, code),
     infra_count |-> infra, code_count |-> code]

\* preprocessor.PREPROCESSORS
PREPROCESSORS == [github |-> "GitHubActionsPreprocessor"]

\* ', '.join(PREPROCESSORS): the registered names in the dict's order.
Available == <<"github">>

\* get_preprocessor(provider): the class found, or the ValueError raised,
\* whose message quotes the provider and lists the registered names.
get_preprocessor_fallback(p) ==
    IF p \in DOMAIN PREPROCESSORS
    THEN [raised |-> FALSE, cls |-> PREPROCESSORS[p]]
    ELSE [raised |-> FALSE, cls |-> "LogPreprocessor"]

get_preprocessor(p) ==
    IF p \in DOMAIN PREPROCESSORS
    THEN [raised |-> FALSE, cls |-> PREPROCESSORS[p]]
    ELSE [raised |-> TRUE, exc_type |-> "ValueError",
          message |-> [provider |-> p, available |-> Available]]

\* (The errors of the blocks from the k-th on when one seen set serves the
\* whole log.)
RECURSIVE ClassifyBlocksSeen(_, _, _)
ClassifyBlocksSeen(bs, k, seen) ==
    IF k > Len(bs) THEN <<>>
    ELSE LET es == ClassifyLoop(get_infra_patterns, get_code_patterns,
                                splitlines(bs[k].text), 0, bs[k], k, <<>>, seen)
         IN  es \o ClassifyBlocksSeen(bs, k + 1,
                                      seen \cup {Key(es[j]) : j \in 1..Len(es)})

ClassifyBlocksGlobalSeen(bs, k) == ClassifyBlocksSeen(bs, k, {})

\* The errors of the blocks from the k-th on, in block order.
RECURSIVE ClassifyBlocks(_, _)
ClassifyBlocks(bs, k) ==
    IF k > Len(bs) THEN <<>>
    ELSE _classify_block(bs[k], k) \o ClassifyBlocks(bs, k + 1)

\* classify(raw_log, provider): what it returns, or the exception it lets
\* through from get_preprocessor.
classify(raw, p) ==
    LET pre == get_preprocessor(p) IN
    IF pre.raised THEN pre
    ELSE LET all_errors == sort(ClassifyBlocks(split_steps(pre.cls, raw), 1))
         IN  [raised |-> FALSE,
              value |-> AnalysisResult(all_errors,
                                       count(all_errors, "infrastructure"),
                                       count(all_errors, "code"))]

--------------------------------------------------------------------------
(* A caller that registers patterns and classifies logs, one call at a     *)
(* time.                                                                   *)

MaxLogLines == 3

\* The lines logs are made of.
LogLines ==
    {<<"GRP", "x">>, <<"END">>, <<"OOM">>, <<"MISS">>, <<"LINT">>,
     <<"LINT", "SP", "CHK">>, <<"x", "LINT">>, <<"x">>}

\* One-line logs whose line several rules of one category match.
OverlapLogs == {<<"MISS", "SP", "CHK">>, <<"x", "MISS", "SP", "CHK">>}

Logs == {join(ls) : ls \in Texts(LogLines, MaxLogLines)} \cup OverlapLogs

Providers == {"github", "gitlab", "jenkins"}

Range(f) == {f[i] : i \in DOMAIN f}

Init ==
    /\ extra_infra = <<>>
    /\ extra_code = <<>>
    /\ pc = "idle"
    /\ variant = None
    /\ raw_log = <<>>
    /\ provider = None
    /\ cleaned1 = None
    /\ cleaned2 = None
    /\ blocks = <<>>
    /\ result = None
    /\ registered = None
    /\ OthersIdle

\* register_patterns(infra, code) with rules not registered before.
Register(infra, code) ==
    /\ pc = "idle"
    /\ Range(infra) \cap Range(extra_infra) = {}
    /\ Range(code) \cap Range(extra_code) = {}
    /\ register_patterns(infra, code)
    /\ UNCHANGED others
    /\ UNCHANGED <<pc, variant, raw_log, provider, cleaned1, cleaned2, blocks,
                   result, registered>>

\* classify(raw, p).  blocks keeps the list classify walked.
Classify(raw, p) ==
    /\ pc = "idle"
    /\ raw_log' = raw
    /\ provider' = p
    /\ result' = classify(raw, p)
    /\ blocks' = IF get_preprocessor(p).raised THEN <<>>
                 ELSE split_steps(get_preprocessor(p).cls, raw)
    /\ pc' = IF get_preprocessor(p).raised THEN "raised" ELSE "returned"
    /\ UNCHANGED others
    /\ UNCHANGED <<extra_infra, extra_code, variant, cleaned1, cleaned2, registered>>

\* The caller is done with the result, or has handled the exception.
Return ==
    /\ pc \in {"returned", "raised"}
    /\ pc' = "idle"
    /\ raw_log' = <<>>
    /\ provider' = None
    /\ blocks' = <<>>
    /\ result' = None
    /\ UNCHANGED others
    /\ UNCHANGED <<extra_infra, extra_code, variant, cleaned1, cleaned2, registered>>

Next ==
    \/ \E infra \in {<<>>, <<ExtInfra>>}, code \in {<<>>, <<ExtCode>>} :
           Register(infra, code)
    \/ \E raw \in Logs, p \in Providers : Classify(raw, p)
    \/ Return

Spec == Init /\ [][Next]_vars

--------------------------------------------------------------------------
(* Claims about classify, checked under Spec.                              *)

\* The errors of the result classify returned.
Errors == result.value.errors

C2_Verdict ==
    pc = "returned" =>
        LET r == result.value IN
        /\ (r.infra_count > 0 /\ r.code_count > 0) => r.verdict = "both"
        /\ (r.infra_count > 0 /\ r.code_count = 0) => r.verdict = "infrastructure"
        /\ (r.infra_count = 0 /\ r.code_count > 0) => r.verdict = "code"
        /\ (r.infra_count = 0 /\ r.code_count = 0) => r.verdict = "clean"

\* C2 witness: a result with a single kind of finding, whose verdict is
\* not "both".
C2_Witness ==
    /\ pc = "returned"
    /\ result.value.infra_count = 0
    /\ result.value.code_count = 2
    /\ result.value.verdict = "code"

\* How urgent a severity is: FATAL first.
Urgency(severity) ==
    CASE severity = "fatal" -> 0 [] severity = "error" -> 1 [] severity = "warning" -> 2

\* C3: in the errors of a returned result every INFRASTRUCTURE finding
\* precedes every CODE finding, and within one category every FATAL finding
\* precedes every ERROR finding, which precedes every WARNING finding.
C3_Ordering ==
    pc = "returned" =>
        \A i, j \in 1..Len(Errors) :
            i < j =>
                /\ ~(Errors[i].category = "code"
                     /\ Errors[j].category = "infrastructure")
                /\ Errors[i].category = Errors[j].category =>
                       Urgency(Errors[i].severity) <= Urgency(Errors[j].severity)

\* C3 witness: a code ERROR found first, an infrastructure WARNING second
\* and an infrastructure FATAL last are returned in the opposite order.
C3_Witness ==
    /\ pc = "returned"
    /\ raw_log = <<"LINT", "NL", "MISS", "NL", "OOM">>
    /\ Len(Errors) = 3
    /\ Errors[1].error_type = "out_of_memory" /\ Errors[1].line_idx = 2
    /\ Errors[2].error_type = "cache_miss" /\ Errors[2].line_idx = 1
    /\ Errors[3].error_type = "lint_violation" /\ Errors[3].line_idx = 0

\* Some infrastructure rule of the registry matches the line.
InfraMatches(line) ==
    \E r \in 1..Len(get_infra_patterns) :
        search(get_infra_patterns[r].pattern, line).start > 0

\* Some code rule of the registry matches the line.
CodeMatches(line) ==
    \E r \in 1..Len(get_code_patterns) :
        search(get_code_patterns[r].pattern, line).start > 0

\* The line an error was found on.
LineOf(e) == splitlines(blocks[e.block_idx].text)[e.line_idx + 1]

\* C4: a line that some infrastructure rule matches yields no CODE finding,
\* whether or not a code rule matches it too: every finding from such a
\* line is an INFRASTRUCTURE finding, and there is at most one.
C4_InfraPriority ==
    pc = "returned" =>
        /\ \A i \in 1..Len(Errors) :
               InfraMatches(LineOf(Errors[i])) =>
                   Errors[i].category = "infrastructure"
        /\ \A i, j \in 1..Len(Errors) :
               (/\ Errors[i].block_idx = Errors[j].block_idx
                /\ Errors[i].line_idx = Errors[j].line_idx) => i = j

\* C4 witness: a line matching both the code rule lint_violation and the
\* infrastructure rule dependency_integrity gave its (only) finding.
C4_Witness ==
    /\ pc = "returned"
    /\ Len(Errors) = 1
    /\ LineOf(Errors[1]) = <<"LINT", "SP", "CHK">>
    /\ CodeMatches(LineOf(Errors[1]))
    /\ Errors[1].error_type = "dependency_integrity"

\* The (kind, summary) key the loop computes for line i of a block, <<>>
\* for a line no rule matches.
LineKey(k, i) ==
    LET found == LineError(get_infra_patterns, get_code_patterns,
                           splitlines(blocks[k].text), i, blocks[k], k)
    IN  IF found = <<>> THEN <<>> ELSE Key(found[1])

\* C5: the findings of one segment never hold two entries with the same
\* (kind, summary), and the finding kept for a pair is from the first line
\* of the segment that yields that pair.
C5_Dedup ==
    pc = "returned" =>
        /\ \A i, j \in 1..Len(Errors) :
               (/\ Errors[i].block_idx = Errors[j].block_idx
                /\ Key(Errors[i]) = Key(Errors[j])) => i = j
        /\ \A i \in 1..Len(Errors) :
               /\ LineKey(Errors[i].block_idx, Errors[i].line_idx) = Key(Errors[i])
               /\ \A l \in 0..(Errors[i].line_idx - 1) :
                      LineKey(Errors[i].block_idx, l) # Key(Errors[i])

\* C5 witness: the first and the third line of one segment match the same
\* rule with the same summary, and the single finding is from the first.
C5_Witness ==
    /\ pc = "returned"
    /\ raw_log = <<"OOM", "NL", "x", "NL", "OOM">>
    /\ extra_infra = <<>> /\ extra_code = <<>>
    /\ Len(blocks) = 1
    /\ LineKey(1, 0) = LineKey(1, 2)
    /\ Len(Errors) = 1
    /\ Errors[1].line_idx = 0

\* C6: in every returned result infra_count is the number of INFRASTRUCTURE
\* findings, code_count the number of CODE findings, and their sum the
\* number of findings whose category is not UNKNOWN.
C6_Counts ==
    pc = "returned" =>
        LET r == result.value
            With(c) == {i \in 1..Len(r.errors) : r.errors[i].category = c}
        IN  /\ r.infra_count = Cardinality(With("infrastructure"))
            /\ r.code_count = Cardinality(With("code"))
            /\ r.infra_count + r.code_count =
                   Cardinality({i \in 1..Len(r.errors) :
                                   r.errors[i].category # "unknown"})

\* C6 witness: two infrastructure findings and a code finding: counts 2
\* and 1.
C6_Witness ==
    /\ pc = "returned"
    /\ raw_log = <<"LINT", "SP", "CHK", "NL", "LINT", "NL", "OOM">>
    /\ result.value.infra_count = 2
    /\ result.value.code_count = 1
    /\ Len(Errors) = 3

\* C10: the sort is stable: two findings with the same category and the
\* same severity are returned in discovery order, by segment and, within a
\* segment, by line index.
C10_StableSort ==
    pc = "returned" =>
        \A i, j \in 1..Len(Errors) :
            (/\ i < j
             /\ Errors[i].category = Errors[j].category
             /\ Errors[i].severity = Errors[j].severity) =>
                \/ Errors[i].block_idx < Errors[j].block_idx
                \/ /\ Errors[i].block_idx = Errors[j].block_idx
                   /\ Errors[i].line_idx < Errors[j].line_idx

\* C10 witness: two code ERROR findings of one segment are returned in
\* line order, behind the infrastructure finding found between them.
C10_Witness ==
    /\ pc = "returned"
    /\ Len(Errors) = 3
    /\ Errors[1].category = "infrastructure" /\ Errors[1].line_idx = 1
    /\ \A i \in 2..3 : Errors[i].category = "code" /\ Errors[i].severity = "error"
    /\ Errors[2].block_idx = Errors[3].block_idx
    /\ Errors[2].line_idx = 0
    /\ Errors[3].line_idx = 2

\* The rules of a list that match the line, by index.
Matching(patterns, line) ==
    {r \in 1..Len(patterns) : search(patterns[r].pattern, line).start > 0}

\* C14: within a category the first matching rule in registry order wins:
\* a line yields at most one finding, and its kind, severity and suggestion
\* are those of the lowest-index matching rule of the winning category
\* (infrastructure if any infrastructure rule matches, else code), however
\* many later rules, built-in or registered, match the line too.
C14_FirstRuleWins ==
    pc = "returned" =>
        /\ \A i, j \in 1..Len(Errors) :
               (/\ Errors[i].block_idx = Errors[j].block_idx
                /\ Errors[i].line_idx = Errors[j].line_idx) => i = j
        /\ \A j \in 1..Len(Errors) :
               LET e == Errors[j]
                   line == LineOf(e)
                   infra == Matching(get_infra_patterns, line) # {}
                   rules == IF infra THEN get_infra_patterns ELSE get_code_patterns
                   M == Matching(rules, line)
               IN  /\ M # {}
                   /\ e.category = IF infra THEN "infrastructure" ELSE "code"
                   /\ \E r \in M :
                          /\ \A q \in M : r <= q
                          /\ e.error_type = rules[r].error_type
                          /\ e.severity = rules[r].severity
                          /\ e.suggestion = rules[r].suggestion

\* C14 witness: the built-in rules cache_miss and dependency_integrity and
\* a registered rule all match one line; its finding is cache_miss's.
C14_Witness ==
    /\ pc = "returned"
    /\ raw_log = <<"x", "MISS", "SP", "CHK">>
    /\ extra_infra = <<ExtInfra>>
    /\ Cardinality(Matching(get_infra_patterns, raw_log)) = 3
    /\ Len(Errors) = 1
    /\ Errors[1].error_type = "cache_miss"
    /\ Errors[1].severity = "warning"

--------------------------------------------------------------------------
(* A caller that classifies logs of many lines of few kinds.               *)

MaxLongLines == 6

LongLines == {<<"x">>, <<"OOM">>, <<"END">>, <<"GRP", "x">>}

LongLogs == {join(ls) : ls \in Texts(LongLines, MaxLongLines)}

NextLong ==
    \/ \E raw \in LongLogs : Classify(raw, "github")
    \/ Return

SpecLong == Init /\ [][NextLong]_vars

\* The lines of the k-th block classify walked.
BlockLines(k) == splitlines(blocks[k].text)

\* The blocks in which some line yields the (kind, summary) key.
BlocksWith(key) ==
    {k \in 1..Len(blocks) :
        \E i \in 0..(Len(BlockLines(k)) - 1) : LineKey(k, i) = key}

\* C11: deduplication is scoped to one segment: a (kind, summary) pair
\* matched in several segments of one log, segments of the same name
\* included, is returned once for each of these segments, so a pair matched
\* in two segments occurs twice in errors.
C11_DedupPerSegment ==
    pc = "returned" =>
        \A k \in 1..Len(blocks) : \A i \in 0..(Len(BlockLines(k)) - 1) :
            LET key == LineKey(k, i) IN
            key # <<>> =>
                /\ Cardinality({j \in 1..Len(Errors) :
                                   /\ Errors[j].block_idx = k
                                   /\ Key(Errors[j]) = key}) = 1
                /\ Cardinality({j \in 1..Len(Errors) : Key(Errors[j]) = key})
                       = Cardinality(BlocksWith(key))

\* C11 witness: the same line in "(preamble)" and in two segments both
\* named "(between steps)" gives three findings with one (kind, summary).
C11_Witness ==
    /\ pc = "returned"
    /\ raw_log = <<"OOM", "NL", "END", "NL", "OOM", "NL", "END", "NL", "OOM">>
    /\ Len(blocks) = 3
    /\ blocks[2].name = blocks[3].name
    /\ Len(Errors) = 3
    /\ \A j \in 1..3 : Errors[j].block_idx = j /\ Key(Errors[j]) = Key(Errors[1])

\* C15: for a finding from line i of a segment of n lines, source_lines is
\* the segment's lines max(0, i-2) .. min(n-1, i+2) in order: it holds the
\* matching line, has 1 to 5 lines and none of another segment.
C15_ContextWindow ==
    pc = "returned" =>
        \A j \in 1..Len(Errors) :
            LET e == Errors[j]
                lines == BlockLines(e.block_idx)
                n == Len(lines)
                i == e.line_idx
                lo == IF i - 2 > 0 THEN i - 2 ELSE 0
                hi == IF i + 2 < n - 1 THEN i + 2 ELSE n - 1
            IN  /\ i \in 0..(n - 1)
                /\ LineKey(e.block_idx, i) = Key(e)
                /\ e.source_lines = [t \in 1..(hi - lo + 1) |-> lines[lo + t]]
                /\ Len(e.source_lines) \in 1..5
                /\ e.source_lines[i - lo + 1] = lines[i + 1]
                /\ e.step_name = blocks[e.block_idx].name

\* C15 witness: a finding from line 1 of the second segment, whose three
\* lines are its whole context although two lines of the first segment
\* stand right before them in the log.
C15_Witness ==
    /\ pc = "returned"
    /\ raw_log = <<"x", "NL", "x", "NL", "END", "NL", "x", "NL", "OOM", "NL", "x">>
    /\ Len(Errors) = 1
    /\ Errors[1].block_idx = 2
    /\ Errors[1].line_idx = 1
    /\ Errors[1].source_lines = <<<<"x">>, <<"OOM">>, <<"x">>>>

\* A finding from line 3 of a segment of six lines: the five lines 1..5,
\* without line 0.
C15_FiveLines ==
    /\ pc = "returned"
    /\ Len(Errors) = 1
    /\ Len(BlockLines(Errors[1].block_idx)) = 6
    /\ Errors[1].line_idx = 3
    /\ Len(Errors[1].source_lines) = 5

--------------------------------------------------------------------------
(* The blocks of one log classified by _classify_block calls that run one  *)
(* loop iteration at a time, in any interleaving, and merged in block      *)
(* order by the rest of classify.                                          *)

MaxParLines == 4

ParLines == {<<"x">>, <<"OOM">>, <<"LINT">>, <<"END">>}

ParLogs == {join(ls) : ls \in Texts(ParLines, MaxParLines)}

\* A _classify_block call not made yet.
NotEntered == [i |-> -1]

Entered(w) == w.i >= 0

\* The locals of _classify_block(block) before its loop.
BlockStart(block) ==
    [infra_patterns |-> get_infra_patterns,
     code_patterns |-> get_code_patterns,
     errors |-> <<>>,
     seen |-> {},
     lines |-> splitlines(block.text),
     i |-> 0]

\* The seen set the call for block k reads and writes.
\* (SeenOfAll: one set shared by all the calls.)
SeenOfAll(ws, k) == UNION {ws[j].seen : j \in {j \in DOMAIN ws : Entered(ws[j])}}

SeenOf(ws, k) == ws[k].seen

\* The locals after the loop iteration for line w.i.
\* (BlockStepLive: the iteration reading the rule lists as they are now.)
BlockStepLive(ws, k, block) ==
    LET w == ws[k]
        found == LineError(get_infra_patterns, get_code_patterns, w.lines,
                           w.i, block, k)
    IN  IF found # <<>> /\ IsNew(Key(found[1]), SeenOf(ws, k))
        THEN [w EXCEPT !.errors = Append(@, found[1]),
                       !.seen = @ \cup {Key(found[1])},
                       !.i = @ + 1]
        ELSE [w EXCEPT !.i = @ + 1]

BlockStep(ws, k, block) ==
    LET w == ws[k]
        found == LineError(w.infra_patterns, w.code_patterns, w.lines, w.i,
                           block, k)
    IN  IF found # <<>> /\ IsNew(Key(found[1]), SeenOf(ws, k))
        THEN [w EXCEPT !.errors = Append(@, found[1]),
                       !.seen = @ \cup {Key(found[1])},
                       !.i = @ + 1]
        ELSE [w EXCEPT !.i = @ + 1]

\* all_errors after the extend of each call's errors, in block order.
RECURSIVE MergeFrom(_, _)
MergeFrom(ws, k) ==
    IF k > Len(ws) THEN <<>> ELSE ws[k].errors \o MergeFrom(ws, k + 1)

InitPar ==
    /\ extra_infra \in {<<>>, <<ExtInfra>>}
    /\ extra_code \in {<<>>, <<ExtCode>>}
    /\ pc = "classifying"
    /\ variant = None
    /\ raw_log \in ParLogs
    /\ provider = "github"
    /\ cleaned1 = None
    /\ cleaned2 = None
    /\ blocks = split_steps(get_preprocessor("github").cls, raw_log)
    /\ result = None
    /\ registered = None
    /\ workers = [k \in 1..Len(blocks) |-> NotEntered]
    /\ previous = None
    /\ files = None
    /\ fixer = None
    /\ cmd = None
    /\ trace = <<>>

\* _classify_block(blocks[k]) is entered.
EnterBlock(k) ==
    /\ pc = "classifying"
    /\ ~Entered(workers[k])
    /\ workers' = [workers EXCEPT ![k] = BlockStart(blocks[k])]
    /\ UNCHANGED <<extra_infra, extra_code, pc, variant, raw_log, provider,
                   cleaned1, cleaned2, blocks, result, registered,
                   previous, files, fixer, cmd, trace>>

\* One iteration of the loop over the lines of blocks[k].
LoopIteration(k) ==
    /\ pc = "classifying"
    /\ Entered(workers[k])
    /\ workers[k].i < Len(workers[k].lines)
    /\ workers' = [workers EXCEPT ![k] = BlockStep(workers, k, blocks[k])]
    /\ UNCHANGED <<extra_infra, extra_code, pc, variant, raw_log, provider,
                   cleaned1, cleaned2, blocks, result, registered,
                   previous, files, fixer, cmd, trace>>

\* Every call has returned: the rest of classify, from the sort on.
Merge ==
    /\ pc = "classifying"
    /\ \A k \in 1..Len(blocks) :
           Entered(workers[k]) /\ workers[k].i = Len(workers[k].lines)
    /\ LET all_errors == sort(MergeFrom(workers, 1))
       IN  result' = [raised |-> FALSE,
                      value |-> AnalysisResult(all_errors,
                                               count(all_errors, "infrastructure"),
                                               count(all_errors, "code"))]
    /\ pc' = "merged"
    /\ UNCHANGED <<extra_infra, extra_code, variant, raw_log, provider,
                   cleaned1, cleaned2, blocks, registered, others>>

NextPar ==
    \/ \E k \in 1..Len(blocks) : EnterBlock(k)
    \/ \E k \in 1..Len(blocks) : LoopIteration(k)
    \/ Merge

SpecPar == InitPar /\ [][NextPar]_vars

\* C16: per-segment classification has no cross-segment dependency: the
\* segments of a log classified in any order or interleaving, their
\* findings merged in segment order before the sort, give the
\* AnalysisResult of the sequential classify; each segment's findings are
\* those of its sequential classification.
C16_OrderIndependent ==
    /\ pc = "merged" => result = classify(raw_log, provider)
    /\ \A k \in 1..Len(blocks) :
           (Entered(workers[k]) /\ workers[k].i = Len(workers[k].lines)) =>
               workers[k].errors = _classify_block(blocks[k], k)

\* C16 witness: the second segment was classified to its end before the
\* first was begun, both hold the same line, and the merged result has the
\* two findings in segment order.
C16_Witness ==
    /\ pc = "merged"
    /\ raw_log = <<"OOM", "NL", "END", "NL", "OOM">>
    /\ Len(result.value.errors) = 2
    /\ result.value.errors[1].block_idx = 1
    /\ result.value.errors[2].block_idx = 2

\* The second segment is classified to its end while the first has not
\* begun.
C16_OutOfOrder ==
    /\ pc = "classifying"
    /\ Len(blocks) = 2
    /\ ~Entered(workers[1])
    /\ Entered(workers[2])
    /\ workers[2].i = Len(workers[2].lines)
    /\ Len(workers[2].errors) = 1

--------------------------------------------------------------------------
(* A caller that classifies, keeps what the call gave, registers patterns  *)
(* or not, and classifies again.                                           *)

MaxRepeatLines == 2

RepeatLines == {<<"x">>, <<"OOM">>, <<"LINT">>}

RepeatLogs == {join(ls) : ls \in Texts(RepeatLines, MaxRepeatLines)}

RepeatProviders == {"github", "gitlab"}

\* No call of the kind was made yet, or none since the last kept one.
NoCall == [called |-> FALSE]

\* What a classify call writes of the module state of patterns.py and
\* preprocessor.py: nothing.
\* (classify_registers: a call that leaves a rule behind.)
classify_registers ==
    /\ extra_infra' = extra_infra \o <<ExtInfra2>>
    /\ extra_code' = extra_code

classify_writes ==
    /\ extra_infra' = extra_infra
    /\ extra_code' = extra_code

InitRepeat ==
    /\ extra_infra = <<>>
    /\ extra_code = <<>>
    /\ pc = "idle"
    /\ variant = None
    /\ raw_log = <<>>
    /\ provider = None
    /\ cleaned1 = None
    /\ cleaned2 = None
    /\ blocks = <<>>
    /\ result = None
    /\ registered = NoCall
    /\ workers = None
    /\ previous = NoCall
    /\ files = None
    /\ fixer = None
    /\ cmd = None
    /\ trace = <<>>

\* classify(raw, p), by a caller that kept what the call before gave.
ClassifyAgain(raw, p) ==
    /\ pc = "idle"
    /\ raw_log' = raw
    /\ provider' = p
    /\ result' = classify(raw, p)
    /\ blocks' = IF get_preprocessor(p).raised THEN <<>>
                 ELSE split_steps(get_preprocessor(p).cls, raw)
    /\ pc' = IF get_preprocessor(p).raised THEN "raised" ELSE "returned"
    /\ classify_writes
    /\ UNCHANGED <<variant, cleaned1, cleaned2, registered, others>>

\* The caller keeps the arguments and the outcome of the call.
Keep ==
    /\ pc \in {"returned", "raised"}
    /\ previous' = [called |-> TRUE, raw_log |-> raw_log,
                    provider |-> provider, result |-> result]
    /\ registered' = NoCall
    /\ pc' = "idle"
    /\ result' = None
    /\ blocks' = <<>>
    /\ UNCHANGED <<extra_infra, extra_code, variant, raw_log, provider,
                   cleaned1, cleaned2, workers, files, fixer, cmd, trace>>

\* register_patterns(infra, code) between two classify calls.
RegisterBetween(infra, code) ==
    /\ pc = "idle"
    /\ ~registered.called
    /\ Range(infra) \cap Range(extra_infra) = {}
    /\ Range(code) \cap Range(extra_code) = {}
    /\ register_patterns(infra, code)
    /\ registered' = [called |-> TRUE, infra |-> infra, code |-> code]
    /\ UNCHANGED <<pc, variant, raw_log, provider, cleaned1, cleaned2, blocks,
                   result, others>>

NextRepeat ==
    \/ \E raw \in RepeatLogs, p \in RepeatProviders : ClassifyAgain(raw, p)
    \/ Keep
    \/ \E infra \in {<<>>, <<ExtInfra>>}, code \in {<<>>, <<ExtCode>>} :
           RegisterBetween(infra, code)

SpecRepeat == InitRepeat /\ [][NextRepeat]_vars

\* The last call repeats the call before it and no register call was made
\* between the two.
Repeated ==
    /\ pc \in {"returned", "raised"}
    /\ previous.called
    /\ ~registered.called
    /\ previous.raw_log = raw_log
    /\ previous.provider = provider

C17_RegisterBetween ==
    /\ pc = "returned"
    /\ previous.called
    /\ registered.called
    /\ registered.infra = <<ExtInfra>>
    /\ previous.raw_log = raw_log
    /\ previous.provider = provider
    /\ Len(previous.result.value.errors) = 0
    /\ Len(result.value.errors) = 1

--------------------------------------------------------------------------
(* fixer/ruff_fixer.py.  The content of a file is a sequence of byte       *)
(* symbols, and a text (a Python str) a sequence of the first two:         *)
(*                                                                         *)
(*   "a"     an ASCII letter                                               *)
(*   "LF"    "\n"                                                          *)
(*   "CRLF"  "\r\n"                                                        *)
(*   "XFF"   the byte 0xff, which no UTF-8 text holds                      *)

\* The Python files of the repository, and sorted(...) of them.
Paths == {"a.py", "b.py"}

PathOrder == <<"a.py", "b.py">>

\* There is no file at the path.
Absent == <<"absent">>

\* What the files hold before a call.
FileContents == {<<"a", "LF">>, <<"a", "CRLF">>, <<"XFF", "LF">>}

\* Path.read_text(encoding="utf-8") raises OSError for a missing file and
\* UnicodeDecodeError for bytes that are no UTF-8.
CanRead(content) ==
    content # Absent /\ \A i \in 1..Len(content) : content[i] # "XFF"

\* Path.read_text(encoding="utf-8"): text mode reads every line ending as
\* "\n".
read_text(content) ==
    [i \in 1..Len(content) |-> IF content[i] = "CRLF" THEN "LF" ELSE content[i]]

\* Path.write_text(content, encoding="utf-8"): "\n" is written as
\* os.linesep, which is "\n" (a POSIX system).
write_text(text) == text

\* _collect_py_files(targets) over the files fs; no target means all.
_collect_py_files(fs, targets) ==
    LET wanted == IF targets # <<>> THEN Range(targets) ELSE Paths
    IN  SelectSeq(PathOrder, LAMBDA p : p \in wanted /\ fs[p] # Absent)

\* _snapshot(files): a file that cannot be read is left out.
_snapshot(fs, flist) ==
    [p \in {q \in Range(flist) : CanRead(fs[q])} |-> read_text(fs[p])]

FileChange(path, original, fixed) ==
    [path |-> path, original |-> original, fixed |-> fixed]

\* _diff_snapshots(before, after): one FileChange for each key of before,
\* in the order of the dict (that of the sorted file list).
_diff_snapshots(before, after) ==
    LET keys == SelectSeq(PathOrder, LAMBDA p : p \in DOMAIN before)
    IN  [i \in 1..Len(keys) |->
            FileChange(keys[i], before[keys[i]],
                       IF keys[i] \in DOMAIN after THEN after[keys[i]]
                       ELSE before[keys[i]])]

\* _restore(snapshot): the files after it.
\* (_restore_nothing: the files with no restore.)
_restore_nothing(fs, snapshot) == fs

_restore(fs, snapshot) ==
    [p \in Paths |-> IF p \in DOMAIN snapshot THEN write_text(snapshot[p])
                     ELSE fs[p]]

FixResult(tool, changes, returncode) ==
    [tool |-> tool, changes |-> changes, returncode |-> returncode,
     stderr |-> ""]

\* What a run of ruff may do to each file, and the content it writes.
ToolEffects == [Paths -> {"keep", "write", "delete"}]

Formatted == <<"a", "a", "LF">>

ReturnCodes == {0, 1, 2}

\* The files after subprocess.run(["ruff", ...]) with the effect e.
_run_ruff(fs, e) ==
    [p \in Paths |-> CASE e[p] = "keep" -> fs[p]
                       [] e[p] = "write" -> Formatted
                       [] e[p] = "delete" -> Absent]

\* The passes a method makes, in order.
\* (PassesCheckFirst: fix_all with the list built the other way round.)
PassesCheckFirst(method) ==
    CASE method = "fix_format" -> <<"ruff format">>
      [] method = "fix_check" -> <<"ruff check --fix">>
      [] method = "fix_all" -> <<"ruff check --fix", "ruff format">>

Passes(method) ==
    CASE method = "fix_format" -> <<"ruff format">>
      [] method = "fix_check" -> <<"ruff check --fix">>
      [] method = "fix_all" -> <<"ruff format", "ruff check --fix">>

Methods == {"fix_format", "fix_check", "fix_all"}

TargetLists == {<<>>, <<"a.py">>, <<"b.py", "a.py">>}

\* RuffFixer(repo_path, dry_run) after __init__, with the locals of the
\* method it runs: the passes still to make (todo), the tool of the pass
\* under way, its file list, its snapshot and the return code of its run,
\* the results so far; at_call keeps the files as they were at the call.
RuffFixer(dry_run) ==
    [dry_run |-> dry_run, method |-> None, targets |-> <<>>, todo |-> <<>>,
     tool |-> None, flist |-> <<>>, before |-> <<>>, returncode |-> 0,
     results |-> <<>>, at_call |-> <<>>]

--------------------------------------------------------------------------
(* One call of fix_format, fix_check or fix_all on a RuffFixer, pass by    *)
(* pass: snapshot, run of the tool, second snapshot with diff and restore. *)

InitFixer ==
    /\ extra_infra = <<>>
    /\ extra_code = <<>>
    /\ pc = "ready"
    /\ variant = None
    /\ raw_log = <<>>
    /\ provider = None
    /\ cleaned1 = None
    /\ cleaned2 = None
    /\ blocks = <<>>
    /\ result = None
    /\ registered = None
    /\ workers = None
    /\ previous = None
    /\ files \in [Paths -> FileContents]
    /\ fixer \in {RuffFixer(d) : d \in BOOLEAN}
    /\ cmd = None
    /\ trace = <<>>

\* fixer.fix_format(targets), fixer.fix_check(targets) or
\* fixer.fix_all(targets) is called.
CallFix(method, targets) ==
    /\ pc = "ready"
    /\ fixer' = [fixer EXCEPT !.method = method, !.targets = targets,
                              !.todo = Passes(method), !.at_call = files]
    /\ pc' = "next"
    /\ UNCHANGED <<extra_infra, extra_code, variant, raw_log, provider,
                   cleaned1, cleaned2, blocks, result, registered,
                   workers, previous, files, cmd, trace>>

\* A pass begins: files = self._collect_py_files(targets);
\* before = self._snapshot(files).
BeginPass ==
    /\ pc = "next"
    /\ fixer.todo # <<>>
    /\ LET flist == _collect_py_files(files, fixer.targets)
       IN  fixer' = [fixer EXCEPT !.tool = Head(fixer.todo),
                                  !.flist = flist,
                                  !.before = _snapshot(files, flist)]
    /\ trace' = Append(trace, <<"begin", Head(fixer.todo)>>)
    /\ pc' = "snapshotted"
    /\ UNCHANGED <<extra_infra, extra_code, variant, raw_log, provider,
                   cleaned1, cleaned2, blocks, result, registered,
                   workers, previous, files, cmd>>

\* proc = self._run_ruff(cmd_args): the tool does e to the files and
\* exits with rc.
RunRuff(e, rc) ==
    /\ pc = "snapshotted"
    /\ files' = _run_ruff(files, e)
    /\ fixer' = [fixer EXCEPT !.returncode = rc]
    /\ trace' = Append(trace, <<"run", fixer.tool>>)
    /\ pc' = "ran"
    /\ UNCHANGED <<extra_infra, extra_code, variant, raw_log, provider,
                   cleaned1, cleaned2, blocks, result, registered,
                   workers, previous, cmd>>

\* The rest of the pass: after = self._snapshot(files); the changes; the
\* restore of a dry run; the FixResult.
FinishPass ==
    /\ pc = "ran"
    /\ LET after == _snapshot(files, fixer.flist)
           changes == _diff_snapshots(fixer.before, after)
       IN  fixer' = [fixer EXCEPT
                        !.results = Append(@, FixResult(fixer.tool, changes,
                                                        fixer.returncode)),
                        !.todo = Tail(@)]
    /\ files' = IF fixer.dry_run THEN _restore(files, fixer.before) ELSE files
    /\ trace' = Append(trace, <<"end", fixer.tool>>)
    /\ pc' = IF Tail(fixer.todo) = <<>> THEN "returned" ELSE "next"
    /\ UNCHANGED <<extra_infra, extra_code, variant, raw_log, provider,
                   cleaned1, cleaned2, blocks, result, registered,
                   workers, previous, cmd>>

NextFixer ==
    \/ \E method \in Methods, targets \in TargetLists : CallFix(method, targets)
    \/ BeginPass
    \/ \E e \in ToolEffects, rc \in ReturnCodes : RunRuff(e, rc)
    \/ FinishPass

SpecFixer == InitFixer /\ [][NextFixer]_vars

\* C18: a dry run leaves files unchanged even if the tool modifies them:
\* after fix_format or fix_check on a RuffFixer with dry_run=True every
\* targeted Python file has exactly the content it had before the call,
\* whatever the tool wrote and whatever return code it gave.
C18_DryRunRestores ==
    (/\ pc = "returned"
     /\ fixer.dry_run
     /\ fixer.method \in {"fix_format", "fix_check"}) =>
        \A p \in Range(fixer.flist) : files[p] = fixer.at_call[p]

\* What does hold of a dry run: a targeted file that held UTF-8 text at the
\* call holds that text after it, with every line ending written as "\n";
\* a targeted file that held no UTF-8 text is as the tool left it.
DryRunRestoresText ==
    (/\ pc = "returned"
     /\ fixer.dry_run
     /\ fixer.method \in {"fix_format", "fix_check"}) =>
        \A p \in Range(fixer.flist) :
            /\ CanRead(fixer.at_call[p]) =>
                   files[p] = write_text(read_text(fixer.at_call[p]))
            /\ ~CanRead(fixer.at_call[p]) =>
                   files[p] \in {fixer.at_call[p], Formatted, Absent}

\* A dry run of fix_format whose tool wrote to a file with "\n" line
\* endings has given the file its content back.
DryRunRestored ==
    /\ pc = "returned"
    /\ fixer.dry_run
    /\ fixer.method = "fix_format"
    /\ fixer.at_call["a.py"] = <<"a", "LF">>
    /\ fixer.results[1].changes[1] =
           FileChange("a.py", <<"a", "LF">>, Formatted)
    /\ files["a.py"] = <<"a", "LF">>

\* The tools fix_all runs, from the begin of the format pass to the end of
\* the check-fix pass.
FixAllTrace ==
    << <<"begin", "ruff format">>, <<"run", "ruff format">>,
       <<"end", "ruff format">>, <<"begin", "ruff check --fix">>,
       <<"run", "ruff check --fix">>, <<"end", "ruff check --fix">> >>

\* C19: fix_all runs the format pass to completion before the check-fix
\* pass starts and returns exactly two results in that order, the first of
\* "ruff format", the second of "ruff check --fix"; the check-fix pass runs
\* whatever return code the format pass gave.
C19_FormatThenCheck ==
    (pc # "ready" /\ fixer.method = "fix_all") =>
        /\ IsPrefix(trace, FixAllTrace)
        /\ Len(fixer.results) =
               Cardinality({i \in 1..Len(trace) : trace[i][1] = "end"})
        /\ (pc = "next" /\ Len(fixer.results) = 1) => fixer.todo # <<>>
        /\ pc = "returned" =>
               /\ trace = FixAllTrace
               /\ Len(fixer.results) = 2
               /\ fixer.results[1].tool = "ruff format"
               /\ fixer.results[2].tool = "ruff check --fix"

\* C19 witness: fix_all has returned its two results although the format
\* pass gave the failing return code 2.
C19_Witness ==
    /\ pc = "returned"
    /\ fixer.method = "fix_all"
    /\ Len(fixer.results) = 2
    /\ fixer.results[1].tool = "ruff format"
    /\ fixer.results[1].returncode = 2
    /\ fixer.results[2].tool = "ruff check --fix"
    /\ fixer.results[2].returncode = 0

--------------------------------------------------------------------------
(* cli/diagnose_cmd.py.  The errors _extract_ruff_targets reads are        *)
(* objects with any attributes: the ClassifiedErrors of classify, or the   *)
(* stand-ins the tests of the command patch classify with.                 *)

\* getattr(err, name, default)
getattr(err, name, default) ==
    IF name \in DOMAIN err THEN err[name] ELSE default

\* value or ""
OrEmpty(value) == IF value = None THEN "" ELSE value

\* name.lower(), for the names the model uses.
lower(name) == IF name = "Ruff" THEN "ruff" ELSE name

\* "ruff" in name, for the names the model uses.
HasRuff(name) == name \in {"ruff", "ruff_check", "ruff_lint", "ruff_format"}

\* re.match(r"^([^\s:]+\.py):\d+", line): group(1), or None; for the lines
\* the model uses.
PyPathAtStart(line) ==
    CASE line = "a.py:1:1: E501" -> "a.py"
      [] line = "b.py:5:1: E302" -> "b.py"
      [] OTHER -> None

\* The path one error adds to targets, None if it adds none.
\* (RuffTargetUntagged: the same without the test of is_ruff.)
RuffTargetUntagged(err) ==
    LET file_path == getattr(err, "file_path", None)
        line == IF OrEmpty(getattr(err, "line", "")) # ""
                THEN getattr(err, "line", "")
                ELSE OrEmpty(getattr(err, "matched_text", ""))
    IN  IF file_path # None /\ file_path # "" THEN file_path
        ELSE PyPathAtStart(line)

RuffTarget(err) ==
    LET pattern_name == OrEmpty(getattr(err, "pattern_name", ""))
        tool == OrEmpty(getattr(err, "tool", ""))
        is_ruff == \/ lower(pattern_name) \in
                          {"ruff_format", "ruff_check", "ruff_lint", "ruff"}
                   \/ HasRuff(lower(pattern_name))
                   \/ HasRuff(lower(tool))
        file_path == getattr(err, "file_path", None)
        line == IF OrEmpty(getattr(err, "line", "")) # ""
                THEN getattr(err, "line", "")
                ELSE OrEmpty(getattr(err, "matched_text", ""))
    IN  IF ~is_ruff THEN None
        ELSE IF file_path # None /\ file_path # "" THEN file_path
        ELSE PyPathAtStart(line)

\* _extract_ruff_targets(result): sorted(targets).
\* (_extract_ruff_targets_lint: the targets read off the lint findings of
\* classify, whose match_text starts with the path a.py.)
_extract_ruff_targets_lint(res) ==
    SelectSeq(PathOrder,
              LAMBDA p : /\ p = "a.py"
                         /\ \E i \in 1..Len(res.errors) :
                                /\ "error_type" \in DOMAIN res.errors[i]
                                /\ res.errors[i].error_type = "lint_violation")

_extract_ruff_targets(res) ==
    LET targets == {RuffTarget(res.errors[i]) : i \in 1..Len(res.errors)} \ {None}
    IN  SelectSeq(PathOrder, LAMBDA p : p \in targets)

\* Errors as the tests build them.
DoubleErrors ==
    {[pattern_name |-> "ruff_check", tool |-> "ruff", file_path |-> "a.py",
      line |-> "a.py:1:1: E501", matched_text |-> "a.py:1:1: E501"],
     [pattern_name |-> "ruff_lint", tool |-> "", file_path |-> None,
      line |-> "b.py:5:1: E302", matched_text |-> "b.py:5:1: E302"],
     [pattern_name |-> "pytest_failure", tool |-> "pytest",
      file_path |-> "b.py", line |-> "", matched_text |-> ""],
     [pattern_name |-> "ruff_check", tool |-> ""]}

MaxDoubleErrors == 1

\* What a patched classify returns.
DoubleResults == {[errors |-> es] : es \in Texts(DoubleErrors, MaxDoubleErrors)}

\* The contents of the log files fetch_run_logs returns.
FetchedLogs == {<<>>, <<<<"LINT">>>>, <<<<"OOM">>, <<"LINT">>>>}

\* The files of the repository when the command starts.
DiagFiles ==
    {[p \in Paths |-> <<"a", "LF">>], [p \in Paths |-> <<"a", "CRLF">>]}

VerifyResult(format_clean, check_clean) ==
    [called |-> TRUE, format_clean |-> format_clean,
     check_clean |-> check_clean]

\* VerifyResult.all_clean
\* (all_clean_format: the format check alone.)
all_clean_format(v) == v.format_clean

all_clean(v) == v.format_clean /\ v.check_clean

\* The fix phase is entered: there are ruff targets and --no-fix is not
\* given.
\* (ShouldFixDespiteNoFix: the same without the --no-fix test.)
ShouldFixDespiteNoFix(c) == c.ruff_targets # <<>>

ShouldFix(c) == c.ruff_targets # <<>> /\ ~c.no_fix

--------------------------------------------------------------------------
(* One run of "cifix diagnose": token, fetch, classify, and then the fix   *)
(* phase, whose passes are the steps of fix_all above.                     *)

NoFixer == [constructed |-> FALSE]

\* A RuffFixer has been constructed in this run.
Constructed == "dry_run" \in DOMAIN fixer

\* cmd.token is the token after get_token's "token or os.environ.get(...)";
\* cmd.status is the status of the log request; cmd.patched is the result a
\* patched classify returns, NoCall where classify is the real one;
\* cmd.ruff_found says whether ruff is on the PATH.
InitDiagnose ==
    /\ extra_infra = <<>>
    /\ extra_code = <<>>
    /\ pc = "invoked"
    /\ variant = None
    /\ raw_log = <<>>
    /\ provider = None
    /\ cleaned1 = None
    /\ cleaned2 = None
    /\ blocks = <<>>
    /\ result = None
    /\ registered = None
    /\ workers = None
    /\ previous = None
    /\ cmd \in [token : {None, "tok"}, status : {200, 404},
                log_files : FetchedLogs, provider : RepeatProviders,
                patched : {NoCall} \cup
                          {[called |-> TRUE, value |-> r] : r \in DoubleResults},
                ruff_found : BOOLEAN, dry_run : BOOLEAN, no_fix : BOOLEAN,
                no_verify : BOOLEAN, at_start : DiagFiles,
                classified : {FALSE}, ruff_targets : {<<>>},
                verify : {NoCall}, exit_code : {-1}]
    /\ files = cmd.at_start
    /\ fixer = NoFixer
    /\ trace = <<>>

\* token = get_token(token): a ClickException ends the run with status 1.
GetToken ==
    /\ pc = "invoked"
    /\ IF cmd.token = None
       THEN /\ cmd' = [cmd EXCEPT !.exit_code = 1]
            /\ pc' = "exited"
       ELSE /\ cmd' = cmd
            /\ pc' = "have_token"
    /\ UNCHANGED <<extra_infra, extra_code, variant, raw_log, provider,
                   cleaned1, cleaned2, blocks, result, registered,
                   workers, previous, files, fixer, trace>>

\* log_files = fetch_run_logs(repo, run_id, token) and the join of the
\* contents; an exception of the request ends the run with status 1.
Fetch ==
    /\ pc = "have_token"
    /\ IF cmd.status # 200
       THEN /\ cmd' = [cmd EXCEPT !.exit_code = 1]
            /\ raw_log' = raw_log
            /\ trace' = Append(trace, <<"phase", "fetch">>)
            /\ pc' = "exited"
       ELSE /\ cmd' = cmd
            /\ raw_log' = join(cmd.log_files)
            /\ trace' = trace \o <<<<"phase", "fetch">>, <<"done", "fetch">>>>
            /\ pc' = "fetched"
    /\ UNCHANGED <<extra_infra, extra_code, variant, provider, cleaned1,
                   cleaned2, blocks, result, registered, workers, previous,
                   files, fixer>>

\* result = classify(raw_log, provider=provider);
\* ruff_targets = _extract_ruff_targets(result).
ClassifyLog ==
    /\ pc = "fetched"
    /\ LET outcome == IF cmd.patched.called
                      THEN [raised |-> FALSE, value |-> cmd.patched.value]
                      ELSE classify(raw_log, cmd.provider)
       IN  IF outcome.raised
           THEN /\ cmd' = [cmd EXCEPT !.exit_code = 1]
                /\ result' = outcome
                /\ trace' = Append(trace, <<"phase", "classify">>)
                /\ pc' = "exited"
           ELSE /\ cmd' = [cmd EXCEPT
                              !.classified = TRUE,
                              !.ruff_targets =
                                  _extract_ruff_targets(outcome.value)]
                /\ result' = outcome
                /\ trace' = trace \o <<<<"phase", "classify">>,
                                       <<"done", "classify">>>>
                /\ pc' = "classified"
    /\ UNCHANGED <<extra_infra, extra_code, variant, raw_log, provider,
                   cleaned1, cleaned2, blocks, registered, workers,
                   previous, files, fixer>>

\* "No ruff-fixable errors detected." or "Skipping auto-fix (--no-fix).":
\* the command returns.
SkipFix ==
    /\ pc = "classified"
    /\ ~ShouldFix(cmd)
    /\ cmd' = [cmd EXCEPT !.exit_code = 0]
    /\ pc' = "exited"
    /\ UNCHANGED <<extra_infra, extra_code, variant, raw_log, provider,
                   cleaned1, cleaned2, blocks, result, registered,
                   workers, previous, files, fixer, trace>>

\* fixer = RuffFixer(dry_run=dry_run) and the call of
\* fixer.fix_all(ruff_targets); without ruff the run ends with status 1.
BeginFix ==
    /\ pc = "classified"
    /\ ShouldFix(cmd)
    /\ trace' = Append(trace, <<"phase", "fix">>)
    /\ IF ~cmd.ruff_found
       THEN /\ cmd' = [cmd EXCEPT !.exit_code = 1]
            /\ fixer' = fixer
            /\ pc' = "exited"
       ELSE /\ cmd' = cmd
            /\ fixer' = [RuffFixer(cmd.dry_run) EXCEPT
                            !.method = "fix_all",
                            !.targets = cmd.ruff_targets,
                            !.todo = Passes("fix_all"),
                            !.at_call = files]
            /\ pc' = "next"
    /\ UNCHANGED <<extra_infra, extra_code, variant, raw_log, provider,
                   cleaned1, cleaned2, blocks, result, registered,
                   workers, previous, files>>

\* After fix_all: verify = fixer.verify(ruff_targets) unless --no-verify
\* or --dry-run, the tool's two checks exiting with frc and crc; the
\* command exits with 1 if verify and not verify.all_clean.
AfterFix(frc, crc) ==
    /\ pc = "returned"
    /\ IF ~cmd.no_verify /\ ~cmd.dry_run
       THEN LET verify == VerifyResult(frc = 0, crc = 0)
            IN  /\ cmd' = [cmd EXCEPT
                              !.verify = verify,
                              !.exit_code = IF all_clean(verify) THEN 0 ELSE 1]
                /\ trace' = Append(trace, <<"phase", "verify">>)
       ELSE /\ cmd' = [cmd EXCEPT !.exit_code = 0]
            /\ trace' = trace
    /\ pc' = "exited"
    /\ UNCHANGED <<extra_infra, extra_code, variant, raw_log, provider,
                   cleaned1, cleaned2, blocks, result, registered,
                   workers, previous, files, fixer>>

NextDiagnose ==
    \/ GetToken
    \/ Fetch
    \/ ClassifyLog
    \/ SkipFix
    \/ BeginFix
    \/ BeginPass
    \/ \E e \in ToolEffects, rc \in ReturnCodes : RunRuff(e, rc)
    \/ FinishPass
    \/ \E frc \in {0, 1}, crc \in {0, 1} : AfterFix(frc, crc)

SpecDiagnose == InitDiagnose /\ [][NextDiagnose]_vars

\* The index of the first event ev in trace, 0 if there is none.
FirstAt(ev) ==
    IF \E i \in 1..Len(trace) : trace[i] = ev
    THEN CHOOSE i \in 1..Len(trace) :
             trace[i] = ev /\ \A j \in 1..(i - 1) : trace[j] # ev
    ELSE 0

\* The run touched nothing in the fix and verify phases: no fixer, no file
\* modified, no pass of the tool, no verification.
NothingFixed ==
    /\ ~Constructed
    /\ files = cmd.at_start
    /\ \A i \in 1..Len(trace) :
           trace[i][1] # "run" /\ trace[i] # <<"phase", "verify">>
    /\ ~cmd.verify.called

\* The fix phase begins only after fetching and classification completed.
FixAfterClassify ==
    FirstAt(<<"phase", "fix">>) # 0 =>
        /\ FirstAt(<<"done", "fetch">>) # 0
        /\ FirstAt(<<"done", "fetch">>) < FirstAt(<<"done", "classify">>)
        /\ FirstAt(<<"done", "classify">>) < FirstAt(<<"phase", "fix">>)
        /\ cmd.classified

NoFixUnknownProvider ==
    /\ pc = "exited"
    /\ cmd.no_fix
    /\ cmd.provider = "gitlab"
    /\ ~cmd.patched.called
    /\ FirstAt(<<"done", "fetch">>) # 0
    /\ cmd.exit_code = 1

\* A run whose fix phase ran to its end.
FixPhaseRan ==
    /\ pc = "exited"
    /\ Constructed
    /\ Len(fixer.results) = 2

--------------------------------------------------------------------------
(* cli/fix_cmd.py: one run of "cifix fix".  The passes are those of        *)
(* fix_format and fix_check above; the verification and the exit status    *)
(* are the statements diagnose_cmd ends with, the action AfterFix.         *)

\* The passes fix_cmd makes: fix_format unless --check-only, then fix_check
\* unless --format-only.
\* (FixCmdPassesBoth: the two passes whatever the options.)
FixCmdPassesBoth(format_only, check_only) ==
    <<"ruff format", "ruff check --fix">>

FixCmdPasses(format_only, check_only) ==
    (IF ~check_only THEN <<"ruff format">> ELSE <<>>)
        \o (IF ~format_only THEN <<"ruff check --fix">> ELSE <<>>)

\* cmd.target is the tuple of the --target options.
InitFixCmd ==
    /\ extra_infra = <<>>
    /\ extra_code = <<>>
    /\ pc = "fix_invoked"
    /\ variant = None
    /\ raw_log = <<>>
    /\ provider = None
    /\ cleaned1 = None
    /\ cleaned2 = None
    /\ blocks = <<>>
    /\ result = None
    /\ registered = None
    /\ workers = None
    /\ previous = None
    /\ cmd \in [ruff_found : BOOLEAN, dry_run : BOOLEAN,
                no_verify : BOOLEAN, format_only : BOOLEAN,
                check_only : BOOLEAN, target : {<<>>, <<"a.py">>},
                at_start : DiagFiles, verify : {NoCall}, exit_code : {-1}]
    /\ files = cmd.at_start
    /\ fixer = NoFixer
    /\ trace = <<>>

\* fixer = RuffFixer(repo_path, dry_run=dry_run), status 1 without ruff;
\* targets = list(target) if target else None; the calls of fix_format and
\* fix_check begin.
FixCmdConstruct ==
    /\ pc = "fix_invoked"
    /\ IF ~cmd.ruff_found
       THEN /\ cmd' = [cmd EXCEPT !.exit_code = 1]
            /\ fixer' = fixer
            /\ pc' = "exited"
       ELSE LET todo == FixCmdPasses(cmd.format_only, cmd.check_only)
            IN  /\ cmd' = cmd
                /\ fixer' = [RuffFixer(cmd.dry_run) EXCEPT
                                !.method = "fix_cmd",
                                !.targets = cmd.target,
                                !.todo = todo,
                                !.at_call = files]
                /\ pc' = IF todo = <<>> THEN "returned" ELSE "next"
    /\ UNCHANGED <<extra_infra, extra_code, variant, raw_log, provider,
                   cleaned1, cleaned2, blocks, result, registered,
                   workers, previous, files, trace>>

NextFixCmd ==
    \/ FixCmdConstruct
    \/ BeginPass
    \/ \E e \in ToolEffects, rc \in ReturnCodes : RunRuff(e, rc)
    \/ FinishPass
    \/ \E frc \in {0, 1}, crc \in {0, 1} : AfterFix(frc, crc)

\* Runs of either command: "cifix fix" or "cifix diagnose".
InitCommands == InitFixCmd \/ InitDiagnose

NextCommands == NextFixCmd \/ NextDiagnose

SpecCommands == InitCommands /\ [][NextCommands]_vars

\* The run is one of "cifix fix".
IsFixCmd == "format_only" \in DOMAIN cmd

\* C21: in the fix and diagnose commands, once the fixer has been
\* constructed, verification runs if and only if neither --dry-run nor
\* --no-verify is set, and the command exits with status 1 if and only if
\* verification ran and reported not all_clean, with 0 otherwise; a dry run
\* exits with 0.
C21_VerifyAndExit ==
    Constructed =>
        /\ pc # "exited" =>
               /\ ~cmd.verify.called
               /\ cmd.exit_code = -1
        /\ pc = "exited" =>
               /\ cmd.verify.called <=> (~cmd.dry_run /\ ~cmd.no_verify)
               /\ cmd.verify.called <=>
                      (\E i \in 1..Len(trace) : trace[i] = <<"phase", "verify">>)
               /\ cmd.exit_code \in {0, 1}
               /\ cmd.exit_code = 1 <=>
                      /\ cmd.verify.called
                      /\ ~(cmd.verify.format_clean /\ cmd.verify.check_clean)
               /\ cmd.dry_run => cmd.exit_code = 0

\* A run of "cifix fix" whose verification found the format clean and the
\* check not has exited with 1.
C21_Witness ==
    /\ pc = "exited"
    /\ IsFixCmd
    /\ Constructed
    /\ cmd.verify.called
    /\ cmd.verify.format_clean
    /\ ~cmd.verify.check_clean
    /\ cmd.exit_code = 1

\* A run of "cifix diagnose" whose verification was not clean has exited
\* with 1.
DiagnoseVerifyFailed ==
    /\ pc = "exited"
    /\ ~IsFixCmd
    /\ Constructed
    /\ cmd.verify.called
    /\ cmd.exit_code = 1

\* A dry run of "cifix fix" with both --format-only and --check-only has
\* exited: no pass, no verification.
FixCmdNoPass ==
    /\ pc = "exited"
    /\ IsFixCmd
    /\ Constructed
    /\ fixer.results = <<>>
    /\ cmd.dry_run
    /\ cmd.exit_code = 0

--------------------------------------------------------------------------
(* The result of classify (specification Spec).                            *)

\* AnalysisResult.has_errors
has_errors(res) == Len(res.errors) > 0

\* C22: for every AnalysisResult returned by classify, verdict is "clean"
\* if and only if errors is empty (has_errors is false): every finding is
\* counted in infra_count or in code_count.
C22_CleanIffNoErrors ==
    (pc = "returned" /\ ~result.raised) =>
        LET res == result.value IN
        /\ res.verdict = "clean" <=> ~has_errors(res)
        /\ ~has_errors(res) <=> res.errors = <<>>
        /\ \A j \in 1..Len(res.errors) :
               res.errors[j].category \in {"infrastructure", "code"}
        /\ res.infra_count + res.code_count = Len(res.errors)

\* classify has returned a result whose only findings are code findings.
C22_Witness ==
    /\ pc = "returned"
    /\ ~result.raised
    /\ has_errors(result.value)
    /\ result.value.infra_count = 0
    /\ result.value.verdict = "code"

\* classify has returned a result without findings for a log with lines.
CleanResult ==
    /\ pc = "returned"
    /\ ~result.raised
    /\ raw_log # <<>>
    /\ result.value.verdict = "clean"

--------------------------------------------------------------------------
(* Calls of _extract_ruff_targets on results whose errors have any of the  *)
(* attributes it reads.                                                    *)

MaxExtractErrors == 2

\* Errors as the tests build them, and others with the same attributes.
ExtractErrors ==
    DoubleErrors \cup
    {[pattern_name |-> "ruff_format", tool |-> "", file_path |-> "a.py",
      line |-> "b.py:5:1: E302", matched_text |-> "b.py:5:1: E302"],
     [pattern_name |-> "", tool |-> "Ruff", file_path |-> "",
      line |-> "", matched_text |-> "b.py:5:1: E302"],
     [pattern_name |-> None, tool |-> "ruff", file_path |-> None,
      line |-> "see b.py:5", matched_text |-> "b.py:5:1: E302"],
     [tool |-> "Ruff", file_path |-> "b.py"]}

InitExtract ==
    /\ extra_infra = <<>>
    /\ extra_code = <<>>
    /\ pc = "extracting"
    /\ variant = None
    /\ raw_log = <<>>
    /\ provider = None
    /\ cleaned1 = None
    /\ cleaned2 = None
    /\ blocks = <<>>
    /\ result \in {[errors |-> es] : es \in Texts(ExtractErrors, MaxExtractErrors)}
    /\ registered = None
    /\ workers = None
    /\ previous = None
    /\ files = None
    /\ fixer = None
    /\ cmd = [ruff_targets |-> <<>>]
    /\ trace = <<>>

\* ruff_targets = _extract_ruff_targets(result)
Extract ==
    /\ pc = "extracting"
    /\ cmd' = [cmd EXCEPT !.ruff_targets = _extract_ruff_targets(result)]
    /\ pc' = "extracted"
    /\ UNCHANGED <<extra_infra, extra_code, variant, raw_log, provider,
                   cleaned1, cleaned2, blocks, result, registered,
                   workers, previous, files, fixer, trace>>

NextExtract == Extract

SpecExtract == InitExtract /\ [][NextExtract]_vars

\* The value of an attribute, "" where the error has none.
Attr(err, name) == IF name \in DOMAIN err THEN err[name] ELSE ""

\* The error is tagged as ruff by its pattern name or its tool.
Tagged(err) ==
    \/ Attr(err, "pattern_name") \in {"ruff", "ruff_check", "ruff_lint", "ruff_format"}
    \/ Attr(err, "tool") \in {"ruff", "Ruff"}

\* The text is "<p>:<line number>..." for the path p.
StartsWith(text, p) ==
    \/ p = "a.py" /\ text = "a.py:1:1: E501"
    \/ p = "b.py" /\ text = "b.py:5:1: E302"

\* The line of an error: its line, or its matched_text if it has no line.
ErrLine(err) ==
    IF Attr(err, "line") \notin {"", None} THEN Attr(err, "line")
    ELSE Attr(err, "matched_text")

\* The position of a path in the order of str.
PathRank(p) == CHOOSE i \in 1..Len(PathOrder) : PathOrder[i] = p

\* The list is in ascending order without duplicates.
SortedUnique(list) ==
    /\ \A i \in 1..Len(list) : list[i] \in Range(PathOrder)
    /\ \A i, j \in 1..Len(list) :
           i < j => PathRank(list[i]) < PathRank(list[j])

\* C23: _extract_ruff_targets returns a sorted, duplicate-free list of file
\* paths that contains a path exactly when some error in the result is
\* tagged as ruff (by its pattern name or tool) and carries that path in
\* file_path or at the start of its matched line; errors not tagged as ruff
\* contribute nothing.
C23_TargetsOfTaggedErrors ==
    pc = "extracted" =>
        /\ SortedUnique(cmd.ruff_targets)
        /\ \A p \in Paths :
               p \in Range(cmd.ruff_targets) <=>
                   \E i \in 1..Len(result.errors) :
                       LET err == result.errors[i] IN
                       /\ Tagged(err)
                       /\ \/ Attr(err, "file_path") = p
                          \/ StartsWith(ErrLine(err), p)

\* C23 as it holds: the same, the line of an error counting only where the
\* error has no file_path (none, None or ""): an error with a file_path
\* contributes that path alone.
C23_TargetsFilePathFirst ==
    pc = "extracted" =>
        /\ SortedUnique(cmd.ruff_targets)
        /\ \A p \in Paths :
               p \in Range(cmd.ruff_targets) <=>
                   \E i \in 1..Len(result.errors) :
                       LET err == result.errors[i] IN
                       /\ Tagged(err)
                       /\ IF Attr(err, "file_path") \notin {"", None}
                          THEN Attr(err, "file_path") = p
                          ELSE StartsWith(ErrLine(err), p)

\* The targets of a result with two tagged errors, found in reverse order
\* and by both ways, are both paths, sorted.
C23_Witness ==
    /\ pc = "extracted"
    /\ Len(result.errors) = 2
    /\ Attr(result.errors[1], "file_path") = None
    /\ StartsWith(ErrLine(result.errors[1]), "b.py")
    /\ Attr(result.errors[2], "file_path") = "a.py"
    /\ cmd.ruff_targets = <<"a.py", "b.py">>

\* The targets of an error with file_path "a.py" and a line that starts
\* with "b.py:5" are "a.py" alone.
C23_FilePathShadowsLine ==
    /\ pc = "extracted"
    /\ Len(result.errors) = 1
    /\ Tagged(result.errors[1])
    /\ Attr(result.errors[1], "file_path") = "a.py"
    /\ StartsWith(ErrLine(result.errors[1]), "b.py")
    /\ cmd.ruff_targets = <<"a.py">>

--------------------------------------------------------------------------
(* cli/__init__.py: one run of "cifix classify".  The token and the fetch  *)
(* are the statements diagnose_cmd begins with, the actions GetToken and   *)
(* Fetch.                                                                  *)

\* result.errors = [e for e in result.errors if e.category == cat_filter]
filter_category(errors, category) ==
    IF category # "all"
    THEN LET cat_filter == IF category = "infra" THEN "infrastructure"
                           ELSE "code"
         IN  SelectSeq(errors, LAMBDA e : e.category = cat_filter)
    ELSE errors

sev_map == [fatal |-> 0, error |-> 1, warning |-> 2]

\* result.errors = [e for e in result.errors
\*                  if sev_rank[e.severity] <= min_sev]
\* (filter_severity_above: the same with < for <=.)
filter_severity_above(errors, severity) ==
    IF severity # "all"
    THEN SelectSeq(errors, LAMBDA e : sev_rank[e.severity] < sev_map[severity])
    ELSE errors

filter_severity(errors, severity) ==
    IF severity # "all"
    THEN SelectSeq(errors, LAMBDA e : sev_rank[e.severity] <= sev_map[severity])
    ELSE errors

\* AnalysisResult.to_dict(); an error's dict has the fields of the error.
to_dict(res) ==
    [verdict |-> res.verdict, infra_count |-> res.infra_count,
     code_count |-> res.code_count, errors |-> res.errors]

\* format_analysis(result): the verdict of the header, the two counts of
\* its "Found ..." line, and the errors of the two sections.
format_analysis(res) ==
    [verdict |-> res.verdict,
     found |-> <<res.infra_count, res.code_count>>,
     infra |-> SelectSeq(res.errors, LAMBDA e : e.category = "infrastructure"),
     code |-> SelectSeq(res.errors, LAMBDA e : e.category = "code")]

MaxCmdFiles == 3

\* The contents of the log files of a run.
CmdLogFiles ==
    Texts({<<"OOM">>, <<"CHK">>, <<"MISS">>, <<"LINT">>}, MaxCmdFiles)

InitClassifyCmd ==
    /\ extra_infra = <<>>
    /\ extra_code = <<>>
    /\ pc = "invoked"
    /\ variant = None
    /\ raw_log = <<>>
    /\ provider = None
    /\ cleaned1 = None
    /\ cleaned2 = None
    /\ blocks = <<>>
    /\ result = NoCall
    /\ registered = None
    /\ workers = None
    /\ previous = NoCall
    /\ files = None
    /\ fixer = None
    /\ cmd \in [token : {None, "tok"}, status : {200, 404},
                log_files : CmdLogFiles, provider : RepeatProviders,
                output : {"text", "json"},
                category : {"all", "infra", "code"},
                severity : {"all", "fatal", "error", "warning"},
                rendered : {NoCall}, exit_code : {-1}]
    /\ trace = <<>>

\* result = classify(raw_log, provider=provider)
CmdClassify ==
    /\ pc = "fetched"
    /\ result' = classify(raw_log, cmd.provider)
    /\ IF result'.raised
       THEN /\ cmd' = [cmd EXCEPT !.exit_code = 1]
            /\ pc' = "exited"
       ELSE /\ cmd' = cmd
            /\ pc' = "cmd_classified"
    /\ UNCHANGED <<extra_infra, extra_code, variant, raw_log, provider,
                   cleaned1, cleaned2, blocks, registered, workers,
                   previous, files, fixer, trace>>

\* The two filters, which assign to result.errors; previous keeps the
\* result as classify returned it.
ApplyFilters ==
    /\ pc = "cmd_classified"
    /\ previous' = [called |-> TRUE, value |-> result.value]
    /\ result' = [result EXCEPT !.value.errors =
                     filter_severity(filter_category(@, cmd.category),
                                     cmd.severity)]
    /\ pc' = "filtered"
    /\ UNCHANGED <<extra_infra, extra_code, variant, raw_log, provider,
                   cleaned1, cleaned2, blocks, registered, workers,
                   files, fixer, cmd, trace>>

\* click.echo(json.dumps(result.to_dict(), indent=2)) or
\* click.echo(format_analysis(result)).
Render ==
    /\ pc = "filtered"
    /\ cmd' = [cmd EXCEPT
                  !.rendered = [called |-> TRUE,
                                value |-> IF cmd.output = "json"
                                          THEN to_dict(result.value)
                                          ELSE format_analysis(result.value)],
                  !.exit_code = 0]
    /\ pc' = "exited"
    /\ UNCHANGED <<extra_infra, extra_code, variant, raw_log, provider,
                   cleaned1, cleaned2, blocks, result, registered,
                   workers, previous, files, fixer, trace>>

NextClassifyCmd ==
    \/ GetToken
    \/ Fetch
    \/ CmdClassify
    \/ ApplyFilters
    \/ Render

SpecClassifyCmd == InitClassifyCmd /\ [][NextClassifyCmd]_vars

\* The errors a rendering shows.
RenderedErrors ==
    IF cmd.output = "json" THEN cmd.rendered.value.errors
    ELSE cmd.rendered.value.infra \o cmd.rendered.value.code

\* The two counts a rendering shows.
RenderedCounts ==
    IF cmd.output = "json"
    THEN <<cmd.rendered.value.infra_count, cmd.rendered.value.code_count>>
    ELSE cmd.rendered.value.found

\* C24: every AnalysisResult that the classify command renders (JSON or
\* text) satisfies the AnalysisResult invariant for every choice of
\* --category and --severity: infra_count + code_count equals the number of
\* non-UNKNOWN findings in the rendered errors list, and verdict is the
\* verdict function of those two counts.
C24_RenderedInvariant ==
    cmd.rendered.called =>
        /\ RenderedCounts[1] + RenderedCounts[2] =
               Cardinality({j \in 1..Len(RenderedErrors) :
                               RenderedErrors[j].category # "unknown"})
        /\ cmd.rendered.value.verdict =
               verdict(RenderedCounts[1], RenderedCounts[2])

\* What does hold of a rendering: the counts and the verdict are those of
\* the result as classify returned it, whatever the filters removed.
RenderedCountsUnfiltered ==
    cmd.rendered.called =>
        /\ RenderedCounts = <<count(previous.value.errors, "infrastructure"),
                              count(previous.value.errors, "code")>>
        /\ cmd.rendered.value.verdict =
               verdict(RenderedCounts[1], RenderedCounts[2])

\* A rendering with --category infra of a run whose only finding is a code
\* finding: no error shown, one code issue counted, verdict "code".
CodeCountedNotShown ==
    /\ cmd.rendered.called
    /\ cmd.category = "infra"
    /\ RenderedErrors = <<>>
    /\ RenderedCounts = <<0, 1>>
    /\ cmd.rendered.value.verdict = "code"

\* The severities at least as urgent as the one --severity names.
AtLeast(severity) ==
    CASE severity = "fatal" -> {"fatal"}
      [] severity = "error" -> {"fatal", "error"}
      [] severity = "warning" -> {"fatal", "error", "warning"}
      [] severity = "all" -> {"fatal", "error", "warning"}

\* The categories --category names.
Named(category) ==
    CASE category = "infra" -> {"infrastructure"}
      [] category = "code" -> {"code"}
      [] category = "all" -> {"infrastructure", "code", "unknown"}

\* C25: the classify command's filters keep exactly the selected findings
\* and preserve their order: --category infra (code) keeps exactly the
\* INFRASTRUCTURE (CODE) findings, --severity S exactly the findings at
\* least as urgent as S, "all" removes nothing; the two filters compose as
\* an intersection.
C25_FiltersKeepSelected ==
    pc \in {"filtered", "exited"} /\ previous.called =>
        LET all_errors == previous.value.errors
            kept == {j \in 1..Len(all_errors) :
                        /\ all_errors[j].category \in Named(cmd.category)
                        /\ all_errors[j].severity \in AtLeast(cmd.severity)}
            errors == result.value.errors
        IN  /\ Len(errors) = Cardinality(kept)
            /\ \A n \in 1..Len(errors) :
                   \E j \in kept :
                       /\ errors[n] = all_errors[j]
                       /\ Cardinality({i \in kept : i < j}) = n - 1
            /\ cmd.rendered.called =>
                   \/ cmd.output = "json" /\ cmd.rendered.value.errors = errors
                   \/ cmd.output = "text" /\ RenderedErrors = errors

\* --category infra with --severity error on a run with findings of both
\* categories: the fatal and the error
\* infrastructure finding are kept, in that order.
C25_Witness ==
    /\ pc = "exited"
    /\ cmd.rendered.called
    /\ cmd.category = "infra"
    /\ cmd.severity = "error"
    /\ Len(previous.value.errors) = 3
    /\ previous.value.code_count = 1
    /\ Len(result.value.errors) = 2
    /\ result.value.errors[1].severity = "fatal"
    /\ result.value.errors[2].severity = "error"

--------------------------------------------------------------------------
(* Logs whose lines match several rules, classified with and without       *)
(* registered rules of one error type.                                     *)

MaxDedupLines == 3

DedupLines ==
    {<<"OOM">>, <<"CHK">>, <<"OOM", "SP", "CHK">>, <<"OOM", "SP", "LINT">>,
     <<"x">>, <<"x", "SP", "x">>, <<"END">>}

DedupLogs == {join(ls) : ls \in Texts(DedupLines, MaxDedupLines)}

InitDedup ==
    /\ \/ extra_infra = <<>> /\ extra_code = <<>>
       \/ extra_infra = <<ExtInfraSp>> /\ extra_code = <<ExtCode>>
    /\ pc = "idle"
    /\ variant = None
    /\ raw_log = <<>>
    /\ provider = None
    /\ cleaned1 = None
    /\ cleaned2 = None
    /\ blocks = <<>>
    /\ result = None
    /\ registered = None
    /\ OthersIdle

NextDedup ==
    \/ \E raw \in DedupLogs : Classify(raw, "github")
    \/ Return

SpecDedup == InitDedup /\ [][NextDedup]_vars

\* The (kind, summary) key of rule r's match of a line.
KeyOf(patterns, r, line) ==
    <<patterns[r].error_type,
      truncate(strip(group0(search(patterns[r].pattern, line), line)),
               SummaryLimit)>>

\* The keys recorded in block k before its line i: those of the findings,
\* infrastructure and code, of earlier lines.
SeenBefore(k, i) ==
    {Key(Errors[j]) : j \in {j \in 1..Len(Errors) :
                                Errors[j].block_idx = k /\ Errors[j].line_idx < i}}

\* The findings of line i of block k.
FoundAt(k, i) ==
    {j \in 1..Len(Errors) : Errors[j].block_idx = k /\ Errors[j].line_idx = i}

\* C26: when the first infrastructure rule matching a line yields a (kind,
\* summary) key already recorded in the segment, no finding is appended for
\* that line: no later infrastructure rule and no code rule is tried, even
\* if one would match the line with a new key; the recorded keys are those
\* of the infrastructure and of the code findings of the segment.
C26_SeenKeyEndsLine ==
    pc = "returned" =>
        \A k \in 1..Len(blocks) : \A i \in 0..(Len(BlockLines(k)) - 1) :
            LET line == BlockLines(k)[i + 1]
                infra == get_infra_patterns
                matching == {r \in 1..Len(infra) :
                                search(infra[r].pattern, line).start > 0}
            IN  matching # {} =>
                    LET first == CHOOSE r \in matching : \A q \in matching : r <= q
                        key == KeyOf(infra, first, line)
                    IN  IF key \in SeenBefore(k, i)
                        THEN FoundAt(k, i) = {}
                        ELSE \E j \in FoundAt(k, i) :
                                 /\ FoundAt(k, i) = {j}
                                 /\ Errors[j].category = "infrastructure"
                                 /\ Key(Errors[j]) = key

\* Some rule of patterns matches the line with a key not in keys.
NewKeyFrom(patterns, line, keys) ==
    \E r \in 1..Len(patterns) :
        /\ search(patterns[r].pattern, line).start > 0
        /\ KeyOf(patterns, r, line) \notin keys

\* A segment with the lines "OOM", "OOM <lint>" and "OOM checksum": the
\* second and third give no finding, though the lint rule and the checksum
\* rule match them with new keys.
C26_Witness ==
    /\ pc = "returned"
    /\ Len(blocks) = 1
    /\ BlockLines(1) = <<<<"OOM">>, <<"OOM", "SP", "LINT">>, <<"OOM", "SP", "CHK">>>>
    /\ NewKeyFrom(get_code_patterns, BlockLines(1)[2], SeenBefore(1, 1))
    /\ NewKeyFrom(get_infra_patterns, BlockLines(1)[3], SeenBefore(1, 2))
    /\ Len(Errors) = 1
    /\ Errors[1].line_idx = 0

\* A segment with the lines "x" and "x x" under the registered rules: the
\* key of the code finding of "x" keeps the infrastructure rule's match of
\* "x x" from being recorded.
CodeKeyEndsInfraLine ==
    /\ pc = "returned"
    /\ extra_infra = <<ExtInfraSp>>
    /\ Len(blocks) = 1
    /\ BlockLines(1) = <<<<"x">>, <<"x", "SP", "x">>>>
    /\ Len(Errors) = 1
    /\ Errors[1].category = "code"
    /\ Key(Errors[1]) = KeyOf(get_infra_patterns, Len(get_infra_patterns), BlockLines(1)[2])

--------------------------------------------------------------------------
(* GitHubActionsPreprocessor.split_steps, one iteration of its loop at a   *)
(* time.  workers holds the locals of the call: the lines still to read    *)
(* (todo), current_name, current_lines and blocks; trace records each      *)
(* buffer that is flushed.                                                 *)

InitSplitLoop ==
    /\ extra_infra = <<>>
    /\ extra_code = <<>>
    /\ pc = "split_ready"
    /\ variant = "GitHubActionsPreprocessor"
    /\ raw_log \in Texts(SplitAlphabet, MaxSplitLen)
    /\ provider = None
    /\ cleaned1 = None
    /\ cleaned2 = None
    /\ blocks = <<>>
    /\ result = None
    /\ registered = None
    /\ workers = NotEntered
    /\ previous = None
    /\ files = None
    /\ fixer = None
    /\ cmd = None
    /\ trace = <<>>

\* cleaned = self.clean(raw); lines = cleaned.splitlines(); blocks = [];
\* current_name = "(preamble)"; current_lines = [].
SplitBegin ==
    /\ pc = "split_ready"
    /\ workers' = [i |-> 0, todo |-> splitlines(github_clean(raw_log)),
                   current_name |-> PreambleName, current_lines |-> <<>>,
                   blocks |-> <<>>]
    /\ pc' = "splitting"
    /\ UNCHANGED <<extra_infra, extra_code, variant, raw_log, provider,
                   cleaned1, cleaned2, blocks, result, registered,
                   previous, files, fixer, cmd, trace>>

\* The buffer flushed by a marker or by the end of the input, if any.
Flushed(w) ==
    IF w.current_lines # <<>>
    THEN <<<<"flush", w.current_name, w.current_lines>>>>
    ELSE <<>>

\* One iteration of "for line in lines".
SplitLine ==
    /\ pc = "splitting"
    /\ workers.todo # <<>>
    /\ LET line == Head(workers.todo)
           flushed == Flush(workers.blocks, workers.current_name,
                            workers.current_lines)
       IN  IF IsGroupStart(line)
           THEN /\ workers' = [workers EXCEPT
                                  !.i = @ + 1, !.todo = Tail(@),
                                  !.blocks = flushed,
                                  !.current_name = strip(Tail(line)),
                                  !.current_lines = <<>>]
                /\ trace' = trace \o Flushed(workers)
           ELSE IF IsGroupEnd(line)
           THEN /\ workers' = [workers EXCEPT
                                  !.i = @ + 1, !.todo = Tail(@),
                                  !.blocks = flushed,
                                  !.current_name = BetweenStepsName,
                                  !.current_lines = <<>>]
                /\ trace' = trace \o Flushed(workers)
           ELSE /\ workers' = [workers EXCEPT
                                  !.i = @ + 1, !.todo = Tail(@),
                                  !.current_lines = Append(@, line)]
                /\ trace' = trace
    /\ UNCHANGED <<extra_infra, extra_code, pc, variant, raw_log, provider,
                   cleaned1, cleaned2, blocks, result, registered,
                   previous, files, fixer, cmd>>

\* After the loop: the remaining lines are flushed and the blocks filtered
\* and returned.
SplitEnd ==
    /\ pc = "splitting"
    /\ workers.todo = <<>>
    /\ blocks' = FilterBlocks(Flush(workers.blocks, workers.current_name,
                                    workers.current_lines))
    /\ trace' = trace \o Flushed(workers)
    /\ pc' = "split_done"
    /\ UNCHANGED <<extra_infra, extra_code, variant, raw_log, provider,
                   cleaned1, cleaned2, result, registered, workers,
                   previous, files, fixer, cmd>>

NextSplitLoop == SplitBegin \/ SplitLine \/ SplitEnd

SpecSplitLoop == InitSplitLoop /\ [][NextSplitLoop]_vars

\* The buffers of the flushes so far, one after the other.
RECURSIVE FlushedLines(_)
FlushedLines(events) ==
    IF events = <<>> THEN <<>>
    ELSE Head(events)[3] \o FlushedLines(Tail(events))

\* The lines of the cleaned log that are no markers, in their order.
BodyLines == SelectSeq(CleanedLines, LAMBDA line : ~IsMarker(line))

\* The flushes whose segment is not whitespace-only.
KeptFlushes ==
    SelectSeq(trace, LAMBDA ev : \E i \in 1..Len(ev[3]) : NotBlank(ev[3][i]))

\* C27: the provider-specific split neither loses, duplicates nor reorders
\* body lines: the buffers flushed during one split, in flush order and with
\* the final flush, are together the non-marker lines of the cleaned log in
\* their order, and the returned segments are the flushed buffers, each
\* joined with "\n", less those that are whitespace-only.
C27_NoLineLost ==
    /\ pc = "splitting" =>
           FlushedLines(trace) \o workers.current_lines =
               SelectSeq(SubSeq(CleanedLines, 1, workers.i),
                         LAMBDA line : ~IsMarker(line))
    /\ pc = "split_done" =>
           /\ FlushedLines(trace) = BodyLines
           /\ \A n \in 1..Len(trace) : trace[n][3] # <<>>
           /\ Len(blocks) = Len(KeptFlushes)
           /\ \A n \in 1..Len(blocks) :
                  /\ blocks[n].name = KeptFlushes[n][2]
                  /\ blocks[n].text = join(KeptFlushes[n][3])
           /\ blocks = github_split_steps(raw_log)

\* A split that flushed two buffers, the first of them a blank line that
\* is not returned.
C27_Witness ==
    /\ pc = "split_done"
    /\ Len(trace) = 2
    /\ trace[1][3] = <<<<"SP">>>>
    /\ trace[2][3] = <<<<"x">>>>
    /\ Len(blocks) = 1
    /\ BodyLines = <<<<"SP">>, <<"x">>>>

--------------------------------------------------------------------------
(* diagnose on the results of the real classify (specification             *)
(* SpecDiagnose, the runs with cmd.patched = NoCall).                      *)

\* The attributes _extract_ruff_targets reads of an error.
ReadAttributes == {"pattern_name", "tool", "file_path", "line", "matched_text"}

ClassifyResultsNoTargets ==
    (pc = "returned" /\ ~result.raised) =>
        /\ \A i \in 1..Len(Errors) : DOMAIN Errors[i] \cap ReadAttributes = {}
        /\ _extract_ruff_targets(result.value) = <<>>

--------------------------------------------------------------------------
(* One classify call, its _classify_block calls in block order and one     *)
(* loop iteration at a time, with a register_patterns call of another      *)
(* thread between any two of its steps.  No lock orders the two: the call  *)
(* of get_infra_patterns, the call of get_code_patterns and the two        *)
(* extends of register_patterns are steps of their own.                    *)

MaxConcLines == 3

ConcLogs == {join(ls) : ls \in Texts(ParLines, MaxConcLines)}

\* The call for block k holds a list of infrastructure rules.
HasInfra(w) == "infra_patterns" \in DOMAIN w

\* The call for block k has returned.
Finished(w) == Entered(w) /\ w.i = Len(w.lines)

InitConc ==
    /\ extra_infra = <<>>
    /\ extra_code \in {<<>>, <<ExtCode>>}
    /\ pc = "classifying"
    /\ variant = None
    /\ raw_log \in ConcLogs
    /\ provider = "github"
    /\ cleaned1 = None
    /\ cleaned2 = None
    /\ blocks = split_steps(get_preprocessor("github").cls, raw_log)
    /\ result = None
    /\ registered = NoCall
    /\ workers = [k \in 1..Len(blocks) |-> NotEntered]
    /\ previous = None
    /\ files = None
    /\ fixer = None
    /\ cmd = None
    /\ trace = <<>>

\* _classify_block(blocks[k]) is called, after the calls for the blocks
\* before it: infra_patterns = get_infra_patterns().
SnapshotInfra(k) ==
    /\ pc = "classifying"
    /\ ~HasInfra(workers[k])
    /\ \A j \in 1..(k - 1) : Finished(workers[j])
    /\ workers' = [workers EXCEPT ![k] =
                      [i |-> -1, infra_patterns |-> get_infra_patterns]]
    /\ trace' = Append(trace, <<"enter", k>>)
    /\ UNCHANGED <<extra_infra, extra_code, pc, variant, raw_log, provider,
                   cleaned1, cleaned2, blocks, result, registered,
                   previous, files, fixer, cmd>>

\* code_patterns = get_code_patterns(), and the locals before the loop.
SnapshotCode(k) ==
    /\ pc = "classifying"
    /\ ~Entered(workers[k])
    /\ HasInfra(workers[k])
    /\ workers' = [workers EXCEPT ![k] =
                      [BlockStart(blocks[k]) EXCEPT
                          !.infra_patterns = workers[k].infra_patterns]]
    /\ UNCHANGED <<extra_infra, extra_code, pc, variant, raw_log, provider,
                   cleaned1, cleaned2, blocks, result, registered,
                   previous, files, fixer, cmd, trace>>

\* register_patterns(infra, code) of the other thread:
\* _extra_infra.extend(infra).
ExtendInfra(infra, code) ==
    /\ pc = "classifying"
    /\ ~registered.called
    /\ Range(code) \cap Range(extra_code) = {}
    /\ extra_infra' = IF infra # <<>> THEN extra_infra \o infra ELSE extra_infra
    /\ registered' = [called |-> TRUE, infra |-> infra, code |-> code,
                      returned |-> FALSE]
    /\ UNCHANGED <<extra_code, pc, variant, raw_log, provider, cleaned1,
                   cleaned2, blocks, result, workers, previous, files,
                   fixer, cmd, trace>>

\* _extra_code.extend(code), and the return of register_patterns.
ExtendCode ==
    /\ pc = "classifying"
    /\ registered.called
    /\ ~registered.returned
    /\ extra_code' = IF registered.code # <<>>
                     THEN extra_code \o registered.code ELSE extra_code
    /\ registered' = [registered EXCEPT !.returned = TRUE]
    /\ trace' = Append(trace, <<"registered", 0>>)
    /\ UNCHANGED <<extra_infra, pc, variant, raw_log, provider, cleaned1,
                   cleaned2, blocks, result, workers, previous, files,
                   fixer, cmd>>

NextConc ==
    \/ \E k \in 1..Len(blocks) : SnapshotInfra(k)
    \/ \E k \in 1..Len(blocks) : SnapshotCode(k)
    \/ \E k \in 1..Len(blocks) : LoopIteration(k)
    \/ \E code \in {<<>>, <<ExtCode>>} : ExtendInfra(<<ExtInfra>>, code)
    \/ ExtendCode
    \/ Merge

SpecConc == InitConc /\ [][NextConc]_vars

\* The block was entered after register_patterns returned.
EnteredAfterRegister(k) ==
    \E m, n \in 1..Len(trace) :
        m < n /\ trace[m] = <<"registered", 0>> /\ trace[n] = <<"enter", k>>

\* The errors of the call for block k are those of the loop run over all
\* its lines with the lists the call took.
AppliedSnapshot(k) ==
    workers[k].errors =
        ClassifyLoop(workers[k].infra_patterns, workers[k].code_patterns,
                     workers[k].lines, 0, blocks[k], k, <<>>, {})

\* The lists a call holds are the registry as it is read when they are
\* taken, and no step changes them afterwards.
SnapshotKept ==
    \A k \in 1..Len(blocks) :
        /\ HasInfra(workers[k]) =>
               workers'[k].infra_patterns = workers[k].infra_patterns
        /\ Entered(workers[k]) =>
               workers'[k].code_patterns = workers[k].code_patterns
        /\ (~HasInfra(workers[k]) /\ HasInfra(workers'[k])) =>
               workers'[k].infra_patterns = INFRA_PATTERNS \o extra_infra
        /\ (~Entered(workers[k]) /\ Entered(workers'[k])) =>
               workers'[k].code_patterns = CODE_PATTERNS \o extra_code

\* C29: each segment is classified against a snapshot of the rule lists
\* taken when its classification starts: a register call interleaved with
\* a classify call never changes the rules applied to the remaining lines
\* of the segment in progress, and it changes the rules applied to every
\* segment classified afterwards in the same classify call.
C29_SnapshotPerSegment ==
    /\ [][SnapshotKept]_vars
    /\ [](pc = "merged" =>
              /\ \A k \in 1..Len(blocks) : AppliedSnapshot(k)
              /\ result.value.errors = sort(MergeFrom(workers, 1)))
    /\ [](\A k \in 1..Len(blocks) :
              (Entered(workers[k]) /\ EnteredAfterRegister(k)) =>
                  /\ workers[k].infra_patterns =
                         INFRA_PATTERNS \o extra_infra
                  /\ workers[k].code_patterns = CODE_PATTERNS \o extra_code
                  /\ Range(registered.infra) \subseteq
                         Range(workers[k].infra_patterns))

\* One result with findings from two rule sets: the line "x" is a code
\* finding in the first segment and, a rule having been registered while
\* that segment was in progress, an infrastructure finding in the second.
C29_Witness ==
    /\ pc = "merged"
    /\ Len(blocks) = 2
    /\ workers[1].infra_patterns # workers[2].infra_patterns
    /\ Len(result.value.errors) = 2
    /\ \E m, n \in 1..2 :
           /\ result.value.errors[m].category = "code"
           /\ result.value.errors[m].block_idx = 1
           /\ result.value.errors[n].category = "infrastructure"
           /\ result.value.errors[n].block_idx = 2
           /\ result.value.errors[m].summary = result.value.errors[n].summary

\* A call that took its infrastructure list before a register_patterns
\* call began and its code list after it had returned.
TornSnapshot ==
    \E k \in 1..Len(blocks) :
        /\ Entered(workers[k])
        /\ registered.called
        /\ registered.code # <<>>
        /\ Range(registered.infra) \cap Range(workers[k].infra_patterns) = {}
        /\ Range(registered.code) \subseteq Range(workers[k].code_patterns)

--------------------------------------------------------------------------
(* fix_all: what the check-fix pass starts from.                           *)

\* The check-fix pass of fix_all has taken its first snapshot and the tool
\* has not run yet: files is what the pass runs on.
CheckPassStarts ==
    /\ Constructed
    /\ fixer.method = "fix_all"
    /\ fixer.tool = "ruff check --fix"
    /\ pc = "snapshotted"

FixAllReturned ==
    /\ Constructed
    /\ fixer.method = "fix_all"
    /\ pc = "returned"
    /\ Len(fixer.results) = 2

\* The original sides, and the fixed sides, of a list of changes by path.
Originals(changes) ==
    {<<changes[i].path, changes[i].original>> : i \in 1..Len(changes)}

Fixeds(changes) ==
    {<<changes[i].path, changes[i].fixed>> : i \in 1..Len(changes)}

\* C30: in fix_all with dry_run=True the format pass's changes are rolled
\* back before the check-fix pass starts, so the check-fix pass runs on,
\* and its reported changes are diffs against, the original file contents;
\* with dry_run=False the check-fix pass runs on the contents left by the
\* format pass, so the original side of its changes equals the fixed side
\* of the format pass's changes.
C30_CheckPassInput ==
    /\ (CheckPassStarts /\ fixer.dry_run) =>
           /\ \A p \in Paths : files[p] = fixer.at_call[p]
           /\ fixer.before =
                  _snapshot(fixer.at_call,
                            _collect_py_files(fixer.at_call, fixer.targets))
    /\ (FixAllReturned /\ fixer.dry_run) =>
           Originals(fixer.results[2].changes) =
               Originals(fixer.results[1].changes)
    /\ (FixAllReturned /\ ~fixer.dry_run) =>
           Originals(fixer.results[2].changes) =
               Fixeds(fixer.results[1].changes)

\* What does hold.  Dry run: a targeted file that held UTF-8 text at the
\* call holds that text, its line endings written as "\n", when the
\* check-fix pass starts, and that text is the original side of its change
\* in both passes.  Otherwise: where both passes report a change for a
\* path, the original side of the second is the fixed side of the first.
CheckPassInputText ==
    /\ (CheckPassStarts /\ fixer.dry_run) =>
           \A p \in Range(_collect_py_files(fixer.at_call, fixer.targets)) :
               CanRead(fixer.at_call[p]) =>
                   /\ files[p] = write_text(read_text(fixer.at_call[p]))
                   /\ p \in DOMAIN fixer.before
                   /\ fixer.before[p] = read_text(fixer.at_call[p])
    /\ (FixAllReturned /\ ~fixer.dry_run) =>
           \A i \in 1..Len(fixer.results[1].changes),
              j \in 1..Len(fixer.results[2].changes) :
               fixer.results[1].changes[i].path =
                   fixer.results[2].changes[j].path =>
                   fixer.results[2].changes[j].original =
                       fixer.results[1].changes[i].fixed

\* A dry run of fix_all on files of UTF-8 text with "\n" endings: the
\* format pass rewrote a.py, and the check-fix pass starts from the files
\* as they were at the call.
DryRunCheckFromOriginal ==
    /\ CheckPassStarts
    /\ fixer.dry_run
    /\ fixer.at_call["a.py"] = <<"a", "LF">>
    /\ fixer.results[1].changes[1] =
           FileChange("a.py", <<"a", "LF">>, Formatted)
    /\ files = fixer.at_call

\* A dry run of fix_all whose check-fix pass starts from what the format
\* pass wrote: a.py held bytes that are no UTF-8.
DryRunCheckFromFormatted ==
    /\ CheckPassStarts
    /\ fixer.dry_run
    /\ fixer.at_call["a.py"] = <<"XFF", "LF">>
    /\ files["a.py"] = Formatted
    /\ fixer.before["a.py"] = Formatted

\* fix_all without dry run whose format pass removed a.py: the format
\* pass reports a change for it and the check-fix pass none.
FormatRemovedFile ==
    /\ FixAllReturned
    /\ ~fixer.dry_run
    /\ Len(fixer.results[1].changes) = 1
    /\ fixer.results[1].changes[1].path = "a.py"
    /\ fixer.results[2].changes = <<>>

--------------------------------------------------------------------------
(* A caller that only registers patterns and reads the rule lists.         *)

MaxExtra == 2

InitRegistry ==
    /\ extra_infra = <<>>
    /\ extra_code = <<>>
    /\ pc = "idle"
    /\ variant = None
    /\ raw_log = <<>>
    /\ provider = None
    /\ cleaned1 = None
    /\ cleaned2 = None
    /\ blocks = <<>>
    /\ result = <<>>
    /\ registered = None
    /\ OthersIdle

\* register_patterns(infra, code) while the lists stay within MaxExtra.
RegisterAny(infra, code) ==
    /\ Len(extra_infra) + Len(infra) <= MaxExtra
    /\ Len(extra_code) + Len(code) <= MaxExtra
    /\ register_patterns(infra, code)
    /\ registered' = [infra |-> infra, code |-> code]
    /\ pc' = "registered"
    /\ UNCHANGED others
    /\ UNCHANGED <<variant, raw_log, provider, cleaned1, cleaned2, blocks, result>>

\* get_infra_patterns() and get_code_patterns(): result keeps the two
\* lists returned.
GetPatterns ==
    /\ result' = <<get_infra_patterns, get_code_patterns>>
    /\ pc' = "got"
    /\ UNCHANGED others
    /\ UNCHANGED <<extra_infra, extra_code, variant, raw_log, provider,
                   cleaned1, cleaned2, blocks, registered>>

NextRegistry ==
    \/ \E infra \in Texts({ExtInfra, ExtInfra2}, MaxExtra),
          code \in Texts({ExtCode}, MaxExtra) : RegisterAny(infra, code)
    \/ GetPatterns

SpecRegistry == InitRegistry /\ [][NextRegistry]_vars

\* C9: the registry is append-only: a register call leaves each rule list
\* as it was, followed by the rules registered, in the order given; the
\* built-in rules stay first, in their order; so each list returned is a
\* prefix of every list returned later.
C9_AppendOnly ==
    [][/\ IsPrefix(get_infra_patterns, get_infra_patterns')
       /\ IsPrefix(get_code_patterns, get_code_patterns')
       /\ IsPrefix(INFRA_PATTERNS, get_infra_patterns')
       /\ IsPrefix(CODE_PATTERNS, get_code_patterns')
       /\ pc' = "registered" =>
              /\ get_infra_patterns' = get_infra_patterns \o registered'.infra
              /\ get_code_patterns' = get_code_patterns \o registered'.code
       /\ (result # <<>> /\ result' # <<>>) =>
              /\ IsPrefix(result[1], result'[1])
              /\ IsPrefix(result[2], result'[2])]_vars

\* C9 witness: after two register calls the list returned holds the
\* built-in rules, then the rule of the first call, then that of the second.
C9_Witness ==
    /\ pc = "got"
    /\ extra_infra = <<ExtInfra2, ExtInfra>>
    /\ registered = [infra |-> <<ExtInfra>>, code |-> <<>>]
    /\ result[1] = INFRA_PATTERNS \o <<ExtInfra2, ExtInfra>>
    /\ result[2] = CODE_PATTERNS \o <<ExtCode>>

--------------------------------------------------------------------------
(* Direct calls of clean: x, clean(x), clean(clean(x)).                    *)

MaxCleanLen == 4

CleanAlphabet == {"CSI", "0", "m", "TS", "CMD", "SP", "NL", "x"}

InitClean ==
    /\ extra_infra = <<>>
    /\ extra_code = <<>>
    /\ pc = "start"
    /\ variant \in Variants
    /\ raw_log \in Texts(CleanAlphabet, MaxCleanLen)
    /\ provider = None
    /\ cleaned1 = None
    /\ cleaned2 = None
    /\ blocks = None
    /\ result = None
    /\ registered = None
    /\ OthersIdle

CleanOnce ==
    /\ pc = "start"
    /\ cleaned1' = clean(variant, raw_log)
    /\ pc' = "cleaned"
    /\ UNCHANGED others
    /\ UNCHANGED <<extra_infra, extra_code, variant, raw_log, provider,
                   cleaned2, blocks, result, registered>>

CleanAgain ==
    /\ pc = "cleaned"
    /\ cleaned2' = clean(variant, cleaned1)
    /\ pc' = "recleaned"
    /\ UNCHANGED others
    /\ UNCHANGED <<extra_infra, extra_code, variant, raw_log, provider,
                   cleaned1, blocks, result, registered>>

NextClean == CleanOnce \/ CleanAgain

SpecClean == InitClean /\ [][NextClean]_vars

\* C7: the noise-stripping step is idempotent: clean(clean(x)) = clean(x)
\* for every raw text x and both preprocessor variants.
C7_CleanIdempotent == pc = "recleaned" => cleaned2 = cleaned1

==========================================================================
